---- MODULE Spec2Model ----
(***************************************************************************)
(* FinSight: statement parsers (src/finsight/parsers.py) and the SQLite    *)
(* persistence layer (src/finsight/database.py), modelled as a state       *)
(* machine.  Money is counted in paise (hundredths of a rupee), so the     *)
(* float 31.59 is the integer 3159.  Python's None and SQL's NULL are      *)
(* values of their own.                                                    *)
(***************************************************************************)
EXTENDS Integers, Sequences, FiniteSets, TLC

VARIABLES
    transactions,   \* the rows of the transactions table (committed)
    imports,        \* the rows of the imports table (committed), in insertion order
    calls,          \* number of store_transactions calls made so far
    last,           \* the last store_transactions call: arguments, outcome, state before
    parsed,         \* the last parser call: parser, document, outcome, returned list
    classified,     \* the last call of the classification functions
    exported,       \* the output CSV files, by path
    cmd,            \* the last run of the parse command: arguments, outcome, state before
    token_files,    \* the token files under config/tokens, by path
    auth,           \* the last get_credentials_for_account call: arguments, outcome, files before
    analysis,       \* the last query_transactions, get_spending_summary and analyze_spending calls
    gmail           \* the processed-ids file and the attachments downloaded, over all sync_statements runs

vars ==
    <<transactions, imports, calls, last, parsed, classified, exported,
      cmd, token_files, auth, analysis, gmail>>

-----------------------------------------------------------------------------
(* Bounds of the model *)

MaxTxs == 2

MaxCalls == 2

-----------------------------------------------------------------------------
(* Python values *)

NoneDate == [kind |-> "none", y |-> 0, m |-> 0, d |-> 0]

NoneTime == [kind |-> "none", h |-> 0, mi |-> 0]

Date(y, m, d) == [kind |-> "date", y |-> y, m |-> m, d |-> d]

Time(h, mi) == [kind |-> "time", h |-> h, mi |-> mi]

NoneStr == "<None>"

SqlNull == "<NULL>"

\* a number below 100 written with two digits ('%02d')
TwoDigits(n) == IF n < 10 THEN "0" \o ToString(n) ELSE ToString(n)

\* datetime.date.isoformat() / str(date): YYYY-MM-DD (years of four digits)
DateIso(dt) == ToString(dt.y) \o "-" \o TwoDigits(dt.m) \o "-" \o TwoDigits(dt.d)

\* datetime.time.isoformat() of a time without seconds set: HH:MM:00
TimeIso(t) == TwoDigits(t.h) \o ":" \o TwoDigits(t.mi) \o ":00"

\* str() of a date-or-None inside an f-string
StrDate(dt) == IF dt.kind = "none" THEN "None" ELSE DateIso(dt)

Abs(n) == IF n < 0 THEN -n ELSE n

\* str() of a float with at most two decimals, the float being n/100:
\* 3159 -> "31.59", 50000 -> "500.0", -50 -> "-0.5", 5 -> "0.05"
StrFloat(n) ==
    LET a == Abs(n)
        whole == a \div 100
        frac == a % 100
        fracStr == IF frac % 10 = 0 THEN ToString(frac \div 10) ELSE TwoDigits(frac)
    IN  (IF n < 0 THEN "-" ELSE "") \o ToString(whole) \o "." \o fracStr


-----------------------------------------------------------------------------
(* Text.  A string the parsers look into is a sequence of one-character     *)
(* strings; a line of text is the sequence of its whitespace-separated      *)
(* tokens (the parsers strip and split on runs of whitespace).              *)

Digit == {"0", "1", "2", "3", "4", "5", "6", "7", "8", "9"}

DigitVal(c) ==
    CASE c = "0" -> 0 [] c = "1" -> 1 [] c = "2" -> 2 [] c = "3" -> 3 [] c = "4" -> 4
      [] c = "5" -> 5 [] c = "6" -> 6 [] c = "7" -> 7 [] c = "8" -> 8 [] c = "9" -> 9

Letter == {"A", "B", "C", "D", "E", "F", "G", "H", "I", "J", "K", "L", "M", "N", "O",
           "P", "Q", "R", "S", "T", "U", "V", "W", "X", "Y", "Z",
           "a", "b", "c", "d", "e", "f", "g", "h", "i", "j", "k", "l", "m", "n", "o",
           "p", "q", "r", "s", "t", "u", "v", "w", "x", "y", "z"}

\* the characters of the regex class \w
WordChar == Digit \cup Letter \cup {"_"}

\* str.isdigit(): not empty and digits only
IsDigits(s) == Len(s) > 0 /\ \A i \in 1..Len(s) : s[i] \in Digit

\* int() of a string of digits
RECURSIVE ToNat(_)
ToNat(s) == IF s = <<>> THEN 0 ELSE 10 * ToNat(SubSeq(s, 1, Len(s) - 1)) + DigitVal(s[Len(s)])

\* the Python str of a sequence of characters
RECURSIVE Str(_)
Str(s) == IF s = <<>> THEN "" ELSE s[1] \o Str(Tail(s))

\* ' '.join(tokens)
RECURSIVE Join(_)
Join(toks) ==
    IF toks = <<>> THEN ""
    ELSE IF Len(toks) = 1 THEN Str(toks[1])
    ELSE Str(toks[1]) \o " " \o Join(Tail(toks))

\* len(' '.join(tokens))
RECURSIVE JoinLen(_)
JoinLen(toks) ==
    IF toks = <<>> THEN 0
    ELSE IF Len(toks) = 1 THEN Len(toks[1])
    ELSE Len(toks[1]) + 1 + JoinLen(Tail(toks))

\* all lists of at most n items
SeqsUpTo(S, n) == UNION {[1..k -> S] : k \in 0..n}

\* the positions of c in s
Positions(s, c) == {i \in 1..Len(s) : s[i] = c}

Min(S) == CHOOSE x \in S : \A y \in S : x <= y

\* calendar validity, as datetime.date checks it (years 1..9999)
IsLeap(y) == (y % 4 = 0 /\ y % 100 # 0) \/ y % 400 = 0

DaysIn(y, m) ==
    IF m = 2 THEN (IF IsLeap(y) THEN 29 ELSE 28)
    ELSE IF m \in {4, 6, 9, 11} THEN 30 ELSE 31

ValidDate(y, m, d) == y >= 1 /\ m \in 1..12 /\ d >= 1 /\ d <= DaysIn(y, m)

\* datetime.strptime(s, fmt).date() for the formats %d<sep>%m<sep>%Y
\* (dayFirst) and %Y<sep>%m<sep>%d: None for what raises ValueError.
\* %d and %m take one or two digits, %Y exactly four.
Strptime(s, sep, dayFirst) ==
    LET seps == Positions(s, sep)
    IN  IF Cardinality(seps) # 2 THEN NoneDate
        ELSE LET p1 == Min(seps)
                 p2 == Min(seps \ {p1})
                 f1 == SubSeq(s, 1, p1 - 1)
                 f2 == SubSeq(s, p1 + 1, p2 - 1)
                 f3 == SubSeq(s, p2 + 1, Len(s))
                 ys == IF dayFirst THEN f3 ELSE f1
                 ds == IF dayFirst THEN f1 ELSE f3
             IN  IF /\ IsDigits(ys) /\ Len(ys) = 4
                    /\ IsDigits(f2) /\ Len(f2) <= 2
                    /\ IsDigits(ds) /\ Len(ds) <= 2
                    /\ ValidDate(ToNat(ys), ToNat(f2), ToNat(ds))
                 THEN Date(ToNat(ys), ToNat(f2), ToNat(ds))
                 ELSE NoneDate

\* float(s) of a plain decimal numeral, in paise: an optional sign, digits,
\* and at most two decimals (the model's amounts have no more); ok is FALSE
\* for what raises ValueError
ParseFloat(s) ==
    LET neg == Len(s) > 0 /\ s[1] = "-"
        u == IF Len(s) > 0 /\ s[1] \in {"-", "+"} THEN Tail(s) ELSE s
        dots == Positions(u, ".")
        whole == IF dots = {} THEN u ELSE SubSeq(u, 1, Min(dots) - 1)
        frac == IF dots = {} THEN <<>> ELSE SubSeq(u, Min(dots) + 1, Len(u))
        good == /\ Cardinality(dots) <= 1
                /\ Len(whole) + Len(frac) > 0
                /\ \A i \in 1..Len(whole) : whole[i] \in Digit
                /\ \A i \in 1..Len(frac) : frac[i] \in Digit
                /\ Len(frac) <= 2
        paise == 100 * ToNat(whole)
                 + (IF Len(frac) = 1 THEN 10 * ToNat(frac) ELSE ToNat(frac))
    IN  IF good THEN [ok |-> TRUE, value |-> IF neg THEN -paise ELSE paise]
        ELSE [ok |-> FALSE, value |-> 0]

\* str.strip() of a string whose only whitespace is the space
RECURSIVE Strip(_)
Strip(s) ==
    IF s = <<>> THEN s
    ELSE IF s[1] = " " THEN Strip(Tail(s))
    ELSE IF s[Len(s)] = " " THEN Strip(SubSeq(s, 1, Len(s) - 1))
    ELSE s

\* float('nan'): not a number, kept as a value that no amount equals
NaN == -2147483647

\* the spellings of nan that float() takes (those in one case)
NanText == {<<"n", "a", "n">>, <<"N", "a", "N">>, <<"N", "A", "N">>}

\* float(s): surrounding whitespace is ignored, and nan is taken
PyFloat(s) ==
    IF Strip(s) \in NanText THEN [ok |-> TRUE, value |-> NaN] ELSE ParseFloat(Strip(s))

\* a - b on floats
FloatSub(a, b) == IF a = NaN \/ b = NaN THEN NaN ELSE a - b

\* -a on floats
FloatNeg(a) == IF a = NaN THEN NaN ELSE -a

\* str.upper() on the letters c, r, d (the credit/debit markers)
UpperChar(c) == CASE c = "c" -> "C" [] c = "r" -> "R" [] c = "d" -> "D" [] OTHER -> c

Upper(s) == [i \in 1..Len(s) |-> UpperChar(s[i])]

\* whether s holds the two characters a, b next to each other
HasPair(s, a, b) == \E i \in 1..(Len(s) - 1) : s[i] = a /\ s[i + 1] = b

-----------------------------------------------------------------------------
(* models.py (not in the source tree): clean_amount, as the specification   *)
(* describes parse_amount: commas, currency symbols and whitespace are      *)
(* stripped, a CR marker makes the amount negative and a DR marker          *)
(* positive, and a string without a numeral fails.                          *)

NotAmountNoise(c) == c \notin {",", " ", "C", "R", "D"}

clean_amount(s) ==
    LET credit == HasPair(s, "C", "R")
        debit == HasPair(s, "D", "R")
        p == ParseFloat(SelectSeq(s, NotAmountNoise))
    IN  IF ~p.ok THEN [ok |-> FALSE, value |-> 0]
        ELSE [ok |-> TRUE,
              value |-> IF credit THEN -Abs(p.value)
                        ELSE IF debit THEN Abs(p.value) ELSE p.value]

-----------------------------------------------------------------------------
(* parsers.py: amazon_pay_statement, the text-line PDF parser *)

\* \d{2}/\d{2}/\d{4} at position i of a token
DatePatternAt(tok, i) ==
    /\ i + 9 <= Len(tok)
    /\ \A j \in {i, i + 1, i + 3, i + 4, i + 6, i + 7, i + 8, i + 9} : tok[j] \in Digit
    /\ tok[i + 2] = "/" /\ tok[i + 5] = "/"

DatePositions(tok) == {i \in 1..Len(tok) : DatePatternAt(tok, i)}

\* a date parser that reads the three numbers without checking the calendar
parse_date_unchecked(date_str) ==
    Date(ToNat(SubSeq(date_str, 7, 10)), ToNat(SubSeq(date_str, 4, 5)),
         ToNat(SubSeq(date_str, 1, 2)))

\* parse_date: DD/MM/YYYY to a date, None on ValueError
parse_date(date_str) == Strptime(date_str, "/", TRUE)

\* re.match(r'\d+(?:,\d+)*(?:\.\d{2})?', amount_str): a match at the start,
\* which needs no more than a leading digit
AmountPattern(amount_str) == Len(amount_str) > 0 /\ amount_str[1] \in Digit

\* re.match(r'^\d+%?$', p): digits, then at most one %
IsRewardToken(p) ==
    \/ IsDigits(p)
    \/ Len(p) >= 2 /\ p[Len(p)] = "%" /\ IsDigits(SubSeq(p, 1, Len(p) - 1))

NotRewardToken(p) == ~IsRewardToken(p)

CR == <<"C", "R">>

DR == <<"D", "R">>

Skip == [ok |-> FALSE, date |-> NoneDate, description |-> "", amount |-> 0]

\* a sign step that leaves the amount of a credit line as it is
SignedAmountNoFlip(is_credit, amount) == amount

\* "if is_credit: amount = -abs(amount)"
SignedAmount(is_credit, amount) == IF is_credit THEN -Abs(amount) ELSE amount

\* a search that finds the date at the start of the line only
DateTokensAnchored(line) == {k \in {1} : k <= Len(line) /\ DatePositions(line[k]) # {}}

\* re.search(r'(\d{2}/\d{2}/\d{4})', line): the tokens of the line that hold
\* a match, anywhere in the line
DateTokens(line) == {k \in 1..Len(line) : DatePositions(line[k]) # {}}

\* the body of "for line in lines": the transaction of one line, or Skip
\* where the body reaches a continue
AmazonLine(line) ==
    LET ks == DateTokens(line)
    IN  IF line = <<>> \/ ks = {} THEN Skip
        ELSE
        LET k == Min(ks)
            i == Min(DatePositions(line[k]))
            date == parse_date(SubSeq(line[k], i, i + 9))
            rest == SubSeq(line[k], i + 10, Len(line[k]))
            \* remaining.split(): the rest of the date's token, then the tokens after it
            parts == (IF rest = <<>> THEN <<>> ELSE <<rest>>) \o SubSeq(line, k + 1, Len(line))
            n == Len(parts)
        IN  IF date.kind = "none" \/ n < 3 THEN Skip
            ELSE IF ~IsDigits(parts[1]) \/ Len(parts[1]) < 8 THEN Skip
            ELSE
            LET amount_idx == IF parts[n] \in {CR, DR} THEN -2 ELSE -1
                amount_str == IF amount_idx = -2 THEN parts[n - 1] ELSE parts[n]
                cleaned == clean_amount(amount_str)
                description_parts == IF amount_idx = -1 THEN SubSeq(parts, 2, n - 2)
                                     ELSE SubSeq(parts, 2, n - 1)
                kept == SelectSeq(description_parts, NotRewardToken)
                description == IF Join(kept) = "" THEN Join(description_parts) ELSE Join(kept)
                \* line.upper().endswith(' CR')
                is_credit == Len(line) >= 2 /\ Upper(line[Len(line)]) = CR
            IN  IF ~AmountPattern(amount_str) \/ ~cleaned.ok THEN Skip
                ELSE [ok |-> TRUE, date |-> date, description |-> description,
                      amount |-> SignedAmount(is_credit, cleaned.value)]

\* the call ExpenseItem(date=, time=, description=, amount=, bank_name=);
\* src is the place of the row in the document (page, row), kept for the
\* properties
Expense(src, date, time, description, amount, bank_name) ==
    [src |-> src, date |-> date, time |-> time, description |-> description,
     amount |-> amount, bank_name |-> bank_name]

\* a line loop that ends at the first line it cannot parse
RECURSIVE AmazonLinesBreak(_, _, _, _)
AmazonLinesBreak(transactions_, pg, lines, i) ==
    IF i > Len(lines) THEN transactions_
    ELSE LET r == AmazonLine(lines[i])
         IN  IF r.ok
             THEN AmazonLinesBreak(Append(transactions_,
                                          Expense(<<pg, i>>, r.date, NoneTime, r.description,
                                                  r.amount, "Amazon Pay")),
                                   pg, lines, i + 1)
             ELSE transactions_

\* "for line in lines" from line i on, appending to transactions
RECURSIVE AmazonLines(_, _, _, _)
AmazonLines(transactions_, pg, lines, i) ==
    IF i > Len(lines) THEN transactions_
    ELSE LET r == AmazonLine(lines[i])
         IN  AmazonLines(IF r.ok
                         THEN Append(transactions_,
                                     Expense(<<pg, i>>, r.date, NoneTime, r.description,
                                             r.amount, "Amazon Pay"))
                         ELSE transactions_,
                         pg, lines, i + 1)

\* "for page in pdf.pages" from page pg on; a page without the transaction
\* header (or without text) is passed over
RECURSIVE AmazonPages(_, _, _)
AmazonPages(transactions_, pages, pg) ==
    IF pg > Len(pages) THEN transactions_
    ELSE AmazonPages(IF pages[pg].header
                     THEN AmazonLines(transactions_, pg, pages[pg].lines, 1)
                     ELSE transactions_,
                     pages, pg + 1)

\* amazon_pay_statement: any exception, the failure to open the document
\* included, is caught and answered with the empty list
amazon_pay_statement(doc) ==
    IF ~doc.opens THEN [raised |-> FALSE, expenses |-> <<>>]
    ELSE [raised |-> FALSE, expenses |-> AmazonPages(<<>>, doc.pages, 1)]

-----------------------------------------------------------------------------
(* models.py (not in the source tree): parse_datetime, as the specification *)
(* describes it: "DD/MM/YYYY| HH:MM" to (date, time), and (None, None) for  *)
(* what it does not recognise.                                              *)

parse_datetime(date_str, time_str) ==
    LET date == Strptime(date_str, "/", TRUE)
        good == /\ Len(time_str) = 5 /\ time_str[3] = ":"
                /\ \A j \in {1, 2, 4, 5} : time_str[j] \in Digit
        h == ToNat(SubSeq(time_str, 1, 2))
        mi == ToNat(SubSeq(time_str, 4, 5))
    IN  IF date.kind # "none" /\ good /\ h < 24 /\ mi < 60
        THEN [date |-> date, time |-> Time(h, mi)]
        ELSE [date |-> NoneDate, time |-> NoneTime]

-----------------------------------------------------------------------------
(* parsers.py: hdfc_cred_bill, the tabular PDF parser.  A table row is the  *)
(* sequence of its cells, a cell the sequence of its tokens.                *)

\* \d{2}:\d{2} at position i of a token
TimePatternAt(tok, i) ==
    /\ i + 4 <= Len(tok)
    /\ \A j \in {i, i + 1, i + 3, i + 4} : tok[j] \in Digit
    /\ tok[i + 2] = ":"

\* the matches of (\d{2}/\d{2}/\d{4})\|\s*(\d{2}:\d{2}) in a line, each as
\* <<token of the date, position of the date, token of the time, position of
\* the time>>: the time follows the bar in the same token or opens the next
StampMatches(line) ==
    {m \in UNION {{<<k, i, k, i + 11>>, <<k, i, k + 1, 1>>} :
                     <<k, i>> \in UNION {{<<k2, i2>> : i2 \in DatePositions(line[k2])} :
                                            k2 \in 1..Len(line)}} :
        /\ Len(line[m[1]]) >= m[2] + 10
        /\ line[m[1]][m[2] + 10] = "|"
        /\ IF m[3] = m[1] THEN TimePatternAt(line[m[1]], m[4])
           ELSE /\ Len(line[m[1]]) = m[2] + 10
                /\ m[3] <= Len(line)
                /\ TimePatternAt(line[m[3]], 1)}

\* the leftmost match
FirstStamp(line) ==
    CHOOSE m \in StampMatches(line) :
        \A o \in StampMatches(line) : m[1] < o[1] \/ (m[1] = o[1] /\ m[2] <= o[2])

\* [\d,]+\.?\d* over a whole token
IsAmountToken(tok) ==
    LET dots == Positions(tok, ".")
        head == IF dots = {} THEN tok ELSE SubSeq(tok, 1, Min(dots) - 1)
        tail == IF dots = {} THEN <<>> ELSE SubSeq(tok, Min(dots) + 1, Len(tok))
    IN  /\ Cardinality(dots) <= 1
        /\ Len(head) >= 1
        /\ \A i \in 1..Len(head) : head[i] \in Digit \cup {","}
        /\ \A i \in 1..Len(tail) : tail[i] \in Digit

\* the places j where \bC\s+([\d,]+\.?\d*)\s+l\b matches: token j ends with a
\* C that starts a word, token j+1 is the amount, token j+2 starts with an l
\* that ends a word
AmountMatches(rem) ==
    {j \in 1..(Len(rem) - 2) :
        /\ rem[j][Len(rem[j])] = "C"
        /\ (Len(rem[j]) = 1 \/ rem[j][Len(rem[j]) - 1] \notin WordChar)
        /\ IsAmountToken(rem[j + 1])
        /\ rem[j + 2][1] = "l"
        /\ (Len(rem[j + 2]) = 1 \/ rem[j + 2][2] \notin WordChar)}

NotComma(c) == c # ","

\* re.sub(r'\s*\+\s+\d+', '', text) on tokens: a "+" token and the number
\* token after it are dropped
RECURSIVE DropRewards(_)
DropRewards(toks) ==
    IF toks = <<>> THEN <<>>
    ELSE IF Len(toks) >= 2 /\ toks[1] = <<"+">> /\ IsDigits(toks[2])
    THEN DropRewards(SubSeq(toks, 3, Len(toks)))
    ELSE <<toks[1]>> \o DropRewards(Tail(toks))

SkipRow == [ok |-> FALSE, date |-> NoneDate, time |-> NoneTime, description |-> "", amount |-> 0]

\* the body of "for row_idx, row in enumerate(table[1:], 1)": the
\* transaction of one row, or SkipRow.  Only a row of one non-empty cell is
\* looked at; a row of several cells falls through the if.
HdfcCredRow(row) ==
    IF ~(Len(row) = 1 /\ row[1] # <<>>) THEN SkipRow
    ELSE
    LET full_line == row[1]
    IN  IF JoinLen(full_line) < 20 \/ StampMatches(full_line) = {} THEN SkipRow
        ELSE
        LET m == FirstStamp(full_line)
            dt == parse_datetime(SubSeq(full_line[m[1]], m[2], m[2] + 9),
                                 SubSeq(full_line[m[3]], m[4], m[4] + 4))
            rest == SubSeq(full_line[m[3]], m[4] + 5, Len(full_line[m[3]]))
            remaining == (IF rest = <<>> THEN <<>> ELSE <<rest>>)
                         \o SubSeq(full_line, m[3] + 1, Len(full_line))
        IN  IF dt.date.kind = "none" \/ AmountMatches(remaining) = {} THEN SkipRow
            ELSE
            LET j == Min(AmountMatches(remaining))
                amount == ParseFloat(SelectSeq(remaining[j + 1], NotComma))
                before == SubSeq(remaining[j], 1, Len(remaining[j]) - 1)
                description_text == SubSeq(remaining, 1, j - 1)
                                    \o (IF before = <<>> THEN <<>> ELSE <<before>>)
            IN  IF ~amount.ok THEN SkipRow
                ELSE [ok |-> TRUE, date |-> dt.date, time |-> dt.time,
                      description |-> Join(DropRewards(description_text)),
                      amount |-> amount.value]

\* "for row in table[1:]" from row i on (row 1 is passed over as the header)
RECURSIVE HdfcCredRows(_, _, _, _)
HdfcCredRows(transactions_, pg, table, i) ==
    IF i > Len(table) THEN transactions_
    ELSE LET r == HdfcCredRow(table[i])
         IN  HdfcCredRows(IF r.ok
                          THEN Append(transactions_,
                                      Expense(<<pg, i>>, r.date, r.time, r.description,
                                              r.amount, "HDFC Credit Card"))
                          ELSE transactions_,
                          pg, table, i + 1)

\* "for page_num, page in enumerate(pdf.pages)" from page pg on
RECURSIVE HdfcCredPages(_, _, _)
HdfcCredPages(transactions_, pages, pg) ==
    IF pg > Len(pages) THEN transactions_
    ELSE HdfcCredPages(HdfcCredRows(transactions_, pg, pages[pg], 2), pages, pg + 1)

\* hdfc_cred_bill: nothing is caught, a document that does not open raises
hdfc_cred_bill(doc) ==
    IF ~doc.opens THEN [raised |-> TRUE, expenses |-> <<>>]
    ELSE [raised |-> FALSE, expenses |-> HdfcCredPages(<<>>, doc.pages, 1)]

-----------------------------------------------------------------------------
(* parsers.py: HDFCStatementParser and SBIStatementParser, the delimited-   *)
(* text parsers.  A file is its header (the column names) and its data rows *)
(* (the cells of each, in column order), as csv.DictReader reads it.        *)

\* row.get(key, default)
RowGet(header, row, key, default) ==
    IF \E c \in 1..Len(header) : header[c] = key
    THEN row[CHOOSE c \in 1..Len(header) : header[c] = key]
    ELSE default

StrTime == [kind |-> "str", h |-> 0, mi |-> 0]

SkipCsv == [ok |-> FALSE, date |-> NoneDate, description |-> "", amount |-> 0]

\* x or 0, then float(): an empty cell counts as 0
FloatOrZero(cell) == IF cell = <<>> THEN [ok |-> TRUE, value |-> 0] ELSE PyFloat(cell)

\* the body of HDFCStatementParser.parse_file's "for row in reader"
HdfcCsvRow(header, row) ==
    LET date_str == RowGet(header, row, "Date", RowGet(header, row, "Txn Date", <<>>))
        date == Strptime(date_str, "-", TRUE)
        description == RowGet(header, row, "Description", RowGet(header, row, "Details", <<>>))
        debit == RowGet(header, row, "Debit", RowGet(header, row, "Dr", <<"0">>))
        credit == RowGet(header, row, "Credit", RowGet(header, row, "Cr", <<"0">>))
        c == FloatOrZero(credit)
        d == FloatOrZero(debit)
    IN  IF date_str = <<>> \/ date.kind = "none" THEN SkipCsv
        ELSE IF ~c.ok \/ ~d.ok THEN SkipCsv
        ELSE [ok |-> TRUE, date |-> date, description |-> Str(description),
              amount |-> FloatSub(c.value, d.value)]

\* x or '0'
OrZeroText(cell) == IF cell = <<>> THEN <<"0">> ELSE cell

\* the body of SBIStatementParser.parse_file's "for row in reader"
SbiCsvRow(header, row) ==
    LET date_str == RowGet(header, row, "Txn Date", RowGet(header, row, "Date", <<>>))
        date == Strptime(date_str, "-", FALSE)
        description == RowGet(header, row, "Details", RowGet(header, row, "Description", <<>>))
        debit == OrZeroText(RowGet(header, row, "Debit", RowGet(header, row, "Dr", <<>>)))
        credit == OrZeroText(RowGet(header, row, "Credit", RowGet(header, row, "Cr", <<>>)))
        a == IF Strip(credit) # <<>> THEN PyFloat(Strip(credit))
             ELSE LET d == PyFloat(Strip(debit)) IN [ok |-> d.ok, value |-> FloatNeg(d.value)]
    IN  IF date_str = <<>> \/ date.kind = "none" THEN SkipCsv
        ELSE IF ~a.ok THEN SkipCsv
        ELSE [ok |-> TRUE, date |-> date, description |-> Str(description),
              amount |-> a.value]

\* "for row in reader" of either parser, from data row i on
RECURSIVE CsvRows(_, _, _, _, _)
CsvRows(expenses, parser, header, rows, i) ==
    IF i > Len(rows) THEN expenses
    ELSE LET r == IF parser = "hdfc_csv" THEN HdfcCsvRow(header, rows[i])
                  ELSE SbiCsvRow(header, rows[i])
         IN  CsvRows(IF r.ok
                     THEN Append(expenses,
                                 Expense(<<1, i>>, r.date, StrTime, r.description, r.amount,
                                         IF parser = "hdfc_csv" THEN "HDFC Bank"
                                         ELSE "State Bank of India (SBI)"))
                     ELSE expenses,
                     parser, header, rows, i + 1)

\* parse_file of either parser: a file that does not exist is answered with
\* the empty list
parse_file(parser, doc) ==
    IF ~doc.opens THEN [raised |-> FALSE, expenses |-> <<>>]
    ELSE [raised |-> FALSE, expenses |-> CsvRows(<<>>, parser, doc.header, doc.rows, 1)]

-----------------------------------------------------------------------------
(* The documents of the model *)

MaxPages == 2

MaxLines == 2

MaxRows == 3

\* 15/10/2025 12158779 IGST-CI@18% 0 31.59
LinePlain == <<<<"1", "5", "/", "1", "0", "/", "2", "0", "2", "5">>, <<"1", "2", "1", "5", "8", "7", "7", "9">>, <<"I", "G", "S", "T", "-", "C", "I", "@", "1", "8", "%">>, <<"0">>, <<"3", "1", ".", "5", "9">>>>

\* 7% 25/10/2025 12219871 Swiggy 5 591.00
LinePrefixed == <<<<"7", "%">>, <<"2", "5", "/", "1", "0", "/", "2", "0", "2", "5">>, <<"1", "2", "2", "1", "9", "8", "7", "1">>, <<"S", "w", "i", "g", "g", "y">>, <<"5">>, <<"5", "9", "1", ".", "0", "0">>>>

\* 25/10/2025 12219871 Swiggy 5 591.00
LineSwiggy == Tail(LinePrefixed)

\* 16/10/2025 12158780 REFUND 0 100.00 CR
LineCredit == <<<<"1", "6", "/", "1", "0", "/", "2", "0", "2", "5">>, <<"1", "2", "1", "5", "8", "7", "8", "0">>, <<"R", "E", "F", "U", "N", "D">>, <<"0">>, <<"1", "0", "0", ".", "0", "0">>, <<"C", "R">>>>

\* 17/10/2025 12158781 REVERSAL 0 0.00 CR
LineZeroCredit == <<<<"1", "7", "/", "1", "0", "/", "2", "0", "2", "5">>, <<"1", "2", "1", "5", "8", "7", "8", "1">>, <<"R", "E", "V", "E", "R", "S", "A", "L">>, <<"0">>, <<"0", ".", "0", "0">>, <<"C", "R">>>>

\* 18/10/2025 12158782 PAYMENT 0 250.00 DR
LineDebit == <<<<"1", "8", "/", "1", "0", "/", "2", "0", "2", "5">>, <<"1", "2", "1", "5", "8", "7", "8", "2">>, <<"P", "A", "Y", "M", "E", "N", "T">>, <<"0">>, <<"2", "5", "0", ".", "0", "0">>, <<"D", "R">>>>

\* 21/10/2025 12158785 FEE 0 0.00
LineZero == <<<<"2", "1", "/", "1", "0", "/", "2", "0", "2", "5">>, <<"1", "2", "1", "5", "8", "7", "8", "5">>, <<"F", "E", "E">>, <<"0">>, <<"0", ".", "0", "0">>>>

\* 31/02/2025 12158783 GHOST 0 10.00
LineBadDate == <<<<"3", "1", "/", "0", "2", "/", "2", "0", "2", "5">>, <<"1", "2", "1", "5", "8", "7", "8", "3">>, <<"G", "H", "O", "S", "T">>, <<"0">>, <<"1", "0", ".", "0", "0">>>>

\* 19/10/2025 1215 SHORT 0 10.00
LineBadSerial == <<<<"1", "9", "/", "1", "0", "/", "2", "0", "2", "5">>, <<"1", "2", "1", "5">>, <<"S", "H", "O", "R", "T">>, <<"0">>, <<"1", "0", ".", "0", "0">>>>

\* 20/10/2025 12158784 NOAMT 0 abc
LineBadAmount == <<<<"2", "0", "/", "1", "0", "/", "2", "0", "2", "5">>, <<"1", "2", "1", "5", "8", "7", "8", "4">>, <<"N", "O", "A", "M", "T">>, <<"0">>, <<"a", "b", "c">>>>

\* 22/10/2025 12158786 COFFEE 45.00
LineThree == <<<<"2", "2", "/", "1", "0", "/", "2", "0", "2", "5">>, <<"1", "2", "1", "5", "8", "7", "8", "6">>, <<"C", "O", "F", "F", "E", "E">>, <<"4", "5", ".", "0", "0">>>>

\* Page 1 of 2
LineNoDate == <<<<"P", "a", "g", "e">>, <<"1">>, <<"o", "f">>, <<"2">>>>

Lines == {LinePlain, LinePrefixed, LineSwiggy, LineCredit, LineZeroCredit, LineDebit, LineZero, LineBadDate, LineBadSerial, LineBadAmount, LineThree, LineNoDate}

\* 27/10/2025| 03:46 SWIGGYBENGALURU C 384.00 l
RowSwiggy == <<<<<<"2", "7", "/", "1", "0", "/", "2", "0", "2", "5", "|">>, <<"0", "3", ":", "4", "6">>, <<"S", "W", "I", "G", "G", "Y", "B", "E", "N", "G", "A", "L", "U", "R", "U">>, <<"C">>, <<"3", "8", "4", ".", "0", "0">>, <<"l">>>>>>

\* 28/10/2025| 10:15 AMAZONPAY + 4 C 1,250.00 l
RowReward == <<<<<<"2", "8", "/", "1", "0", "/", "2", "0", "2", "5", "|">>, <<"1", "0", ":", "1", "5">>, <<"A", "M", "A", "Z", "O", "N", "P", "A", "Y">>, <<"+">>, <<"4">>, <<"C">>, <<"1", ",", "2", "5", "0", ".", "0", "0">>, <<"l">>>>>>

\* TOTAL
RowShort == <<<<<<"T", "O", "T", "A", "L">>>>>>

\* 15/10/2025 | IGST-CI@18% | 0 | 31.59
RowColumns == <<<<<<"1", "5", "/", "1", "0", "/", "2", "0", "2", "5">>>>, <<<<"I", "G", "S", "T", "-", "C", "I", "@", "1", "8", "%">>>>, <<<<"0">>>>, <<<<"3", "1", ".", "5", "9">>>>>>

\* 31/02/2025| 03:46 GHOSTMERCHANT C 10.00 l
RowBadDate == <<<<<<"3", "1", "/", "0", "2", "/", "2", "0", "2", "5", "|">>, <<"0", "3", ":", "4", "6">>, <<"G", "H", "O", "S", "T", "M", "E", "R", "C", "H", "A", "N", "T">>, <<"C">>, <<"1", "0", ".", "0", "0">>, <<"l">>>>>>

\* 29/10/2025| 11:00 NOAMOUNTMERCHANT 12.00
RowNoAmount == <<<<<<"2", "9", "/", "1", "0", "/", "2", "0", "2", "5", "|">>, <<"1", "1", ":", "0", "0">>, <<"N", "O", "A", "M", "O", "U", "N", "T", "M", "E", "R", "C", "H", "A", "N", "T">>, <<"1", "2", ".", "0", "0">>>>>>

\* Domestic Transactions Details
RowHeading == <<<<<<"D", "o", "m", "e", "s", "t", "i", "c">>, <<"T", "r", "a", "n", "s", "a", "c", "t", "i", "o", "n", "s">>, <<"D", "e", "t", "a", "i", "l", "s">>>>>>

\* (a blank row)
RowBlank == <<<<>>>>

TableRows == {RowSwiggy, RowReward, RowShort, RowColumns, RowBadDate, RowNoAmount, RowHeading, RowBlank}

RECURSIVE SumSeq(_)
SumSeq(q) == IF q = <<>> THEN 0 ELSE q[1] + SumSeq(Tail(q))

\* the page sizes of the documents: no page, one empty page, or at most
\* MaxPages pages that are not empty and hold at most n lines together
PageSizes(n) ==
    {<<>>, <<0>>} \cup {q \in SeqsUpTo(1..n, MaxPages) : SumSeq(q) <= n}

\* the number of lines before page i when the pages have the sizes q
RECURSIVE Offset(_, _)
Offset(q, i) == IF i <= 1 THEN 0 ELSE q[i - 1] + Offset(q, i - 1)

\* a PDF that does not open
NoPdf == [opens |-> FALSE, pages |-> <<>>]

\* a PDF of text pages: per page whether it holds the transaction header,
\* and its lines; q gives the number of lines of each page, hs the headers
\* and ls the lines of all the pages, one page after the other
TextPdf(q, hs, ls) ==
    [opens |-> TRUE,
     pages |-> [i \in 1..Len(q) |->
                   [header |-> hs[i],
                    lines |-> SubSeq(ls, Offset(q, i) + 1, Offset(q, i) + q[i])]]]

\* a PDF of tables, one per page: q gives the number of rows of each table
\* and rows the rows of all the tables, one table after the other
TablePdf(q, rows) ==
    [opens |-> TRUE,
     pages |-> [i \in 1..Len(q) |-> SubSeq(rows, Offset(q, i) + 1, Offset(q, i) + q[i])]]

\* the cells of the delimited-text files
CellDateDmy == <<"1", "5", "-", "1", "0", "-", "2", "0", "2", "5">>

CellDateIso == <<"2", "0", "2", "5", "-", "1", "0", "-", "1", "5">>

CellEmpty == <<>>

CellAtm == <<"A", "T", "M">>

Cell500 == <<"5", "0", "0">>

CellAbc == <<"a", "b", "c">>

Cell250_50 == <<"2", "5", "0", ".", "5", "0">>

CellBlank == <<" ">>

CellNan == <<"n", "a", "n">>

CsvHeaders == {<<"Date", "Description", "Debit", "Credit">>,
               <<"Txn Date", "Details", "Dr", "Cr">>}

\* a data row: date, description, debit, credit
CsvDataRows ==
    {<<date, CellAtm, debit, credit>> :
        date \in {CellDateDmy, CellDateIso, CellEmpty},
        debit \in {Cell500, CellEmpty, CellAbc},
        credit \in {CellEmpty, Cell250_50, CellBlank}}
    \cup {<<date, CellAtm, CellNan, CellEmpty>> : date \in {CellDateDmy, CellDateIso}}

\* a file that does not exist
NoFile == [opens |-> FALSE, header |-> <<>>, rows |-> <<>>]

CsvFile(header, rows) == [opens |-> TRUE, header |-> header, rows |-> rows]

-----------------------------------------------------------------------------
(* ExpenseItem values handed to the persistence layer *)

ExpenseItem(date, time, name, description, amount, category) ==
    [date |-> date, time |-> time, name |-> name, description |-> description,
     amount |-> amount, category |-> category]

\* A card spend, fully classified.
TxSwiggy == ExpenseItem(Date(2025, 10, 27), Time(3, 46), "Swiggy", "SWIGGYBENGALURU", 38400, "Food and groceries")

\* The same real-world event as TxSwiggy (same date, description, amount),
\* extracted without a time, a merchant or a category.
TxSwiggyBare == ExpenseItem(Date(2025, 10, 27), NoneTime, "", "SWIGGYBENGALURU", 38400, NoneStr)

\* A different event.
TxIgst == ExpenseItem(Date(2025, 10, 15), NoneTime, "", "IGST-CI@18%", 3159, "Uncategorized")

\* An item whose date was never resolved.
TxNoDate == ExpenseItem(NoneDate, NoneTime, "", "SWIGGYBENGALURU", 38400, NoneStr)

Txs == {TxSwiggy, TxSwiggyBare, TxIgst, TxNoDate}

Banks == {"hdfc-bank", "sbi"}

FilePaths == {NoneStr, "stmt.csv"}

\* the bank identifiers the parse command accepts, and so the bank_name
\* values it hands to store_transactions
AcceptedBanks == {"hdfc-cred", "hdfc-bank", "hdfcbank", "sbi", "amazon-pay", "auto"}

\* descriptions that hold the separator of the natural key next to text that
\* reads like a date, an amount or a bank identifier
KeyDescriptions == {"SWIGGY", "SWIGGY_384.0", "None_SWIGGY", "2025-10-27_SWIGGY_31.59"}

\* items that differ in date, description or amount
KeyTxs ==
    {ExpenseItem(d, NoneTime, "", description, amount, NoneStr) :
        d \in {NoneDate, Date(2025, 10, 27)},
        description \in KeyDescriptions,
        amount \in {38400, 3159}}

-----------------------------------------------------------------------------
(* database.py: the transactions and imports tables *)

\* a key made of bank identifier, date and description only
reference_id_without_amount(bank_name, t) ==
    bank_name \o "_" \o StrDate(t.date) \o "_" \o t.description

\* f"{bank_name}_{transaction.date}_{transaction.description}_{transaction.amount}"
reference_id(bank_name, t) ==
    bank_name \o "_" \o StrDate(t.date) \o "_" \o t.description \o "_" \o StrFloat(t.amount)

\* the parameter tuple of the INSERT
InsertParams(bank_name, t, import_date) ==
    [bank_name    |-> bank_name,
     date         |-> IF t.date.kind # "none" THEN DateIso(t.date) ELSE SqlNull,
     time         |-> IF t.time.kind # "none" THEN TimeIso(t.time) ELSE SqlNull,
     name         |-> t.name,
     description  |-> t.description,
     amount       |-> t.amount,
     category     |-> IF t.category \in {NoneStr, ""} THEN "Uncategorized" ELSE t.category,
     reference_id |-> reference_id(bank_name, t),
     import_date  |-> import_date]

\* the UNIQUE constraints of the transactions table: reference_id, and
\* (bank_name, reference_id)
UniqueConflict(r, row) ==
    \/ r.reference_id = row.reference_id
    \/ r.bank_name = row.bank_name /\ r.reference_id = row.reference_id

\* the NOT NULL columns of the transactions table that the INSERT binds
NotNullViolated(row) == row.bank_name = SqlNull \/ row.date = SqlNull

\* a plain INSERT into a table without the UNIQUE constraints
InsertAppend(table, row) ==
    IF NotNullViolated(row)
    THEN [err |-> "IntegrityError", table |-> table]
    ELSE [err |-> "", table |-> table \cup {row}]

\* INSERT OR IGNORE: a uniqueness conflict keeps the stored row
InsertOrIgnore(table, row) ==
    IF NotNullViolated(row)
    THEN [err |-> "IntegrityError", table |-> table]
    ELSE IF \E r \in table : UniqueConflict(r, row)
    THEN [err |-> "", table |-> table]
    ELSE [err |-> "", table |-> table \cup {row}]

\* a plain INSERT: a uniqueness conflict aborts with IntegrityError
InsertPlain(table, row) ==
    IF NotNullViolated(row) \/ \E r \in table : UniqueConflict(r, row)
    THEN [err |-> "IntegrityError", table |-> table]
    ELSE [err |-> "", table |-> table \cup {row}]

\* INSERT OR REPLACE: a uniqueness conflict deletes the conflicting rows and
\* inserts; a NOT NULL violation (no default) aborts with IntegrityError
InsertOrReplace(table, row) ==
    IF NotNullViolated(row)
    THEN [err |-> "IntegrityError", table |-> table]
    ELSE [err |-> "", table |-> {r \in table : ~UniqueConflict(r, row)} \cup {row}]

\* the for loop of store_transactions over transactions[i..]; sqlite raising
\* an error other than IntegrityError at statement number `fault` leaves the loop
RECURSIVE StoreLoop(_, _, _, _, _, _, _)
StoreLoop(table, txs, i, stored_count, bank_name, import_date, fault) ==
    IF i > Len(txs)
    THEN [raised |-> FALSE, table |-> table, stored_count |-> stored_count]
    ELSE IF fault = i
    THEN [raised |-> TRUE, table |-> table, stored_count |-> stored_count]
    ELSE LET r == InsertOrReplace(table, InsertParams(bank_name, txs[i], import_date))
         IN  IF r.err = "IntegrityError"
             THEN StoreLoop(table, txs, i + 1, stored_count, bank_name, import_date, fault)
             ELSE StoreLoop(r.table, txs, i + 1, stored_count + 1, bank_name, import_date, fault)

RECURSIVE SumAmounts(_, _)
SumAmounts(txs, i) == IF i > Len(txs) THEN 0 ELSE txs[i].amount + SumAmounts(txs, i + 1)

\* an import log that counts the items handed in instead of the items stored
LogImportInputLength(imps, txs, bank_name, file_path, stored_count, fault) ==
    IF file_path \in {NoneStr, ""}
    THEN [raised |-> FALSE, imports |-> imps]
    ELSE IF fault = Len(txs) + 1
    THEN [raised |-> TRUE, imports |-> imps]
    ELSE [raised |-> FALSE,
          imports |-> Append(imps, [file_path |-> file_path, bank_name |-> bank_name,
                                    transaction_count |-> Len(txs),
                                    total_amount |-> SumAmounts(txs, 1)])]

\* "Log the import": one imports row, only for a truthy file_path
LogImport(imps, txs, bank_name, file_path, stored_count, fault) ==
    IF file_path \in {NoneStr, ""}
    THEN [raised |-> FALSE, imports |-> imps]
    ELSE IF fault = Len(txs) + 1
    THEN [raised |-> TRUE, imports |-> imps]
    ELSE [raised |-> FALSE,
          imports |-> Append(imps, [file_path |-> file_path, bank_name |-> bank_name,
                                    transaction_count |-> stored_count,
                                    total_amount |-> SumAmounts(txs, 1)])]

\* a connection in autocommit mode: what was written stays written
ConnExitAutocommit(committed, working, raised) == working

\* "with self.get_connection() as conn": leaving the block commits the
\* connection's work, leaving it by an exception rolls it back
ConnExit(committed, working, raised) == IF raised THEN committed ELSE working

\* store_transactions as a whole: the committed database afterwards, whether
\* the call raised, and the count it returned
store_transactions(db, txs, bank_name, file_path, import_date, fault) ==
    LET loop == StoreLoop(db.transactions, txs, 1, 0, bank_name, import_date, fault)
        log == IF loop.raised
               THEN [raised |-> TRUE, imports |-> db.imports]
               ELSE LogImport(db.imports, txs, bank_name, file_path, loop.stored_count, fault)
        working == [transactions |-> loop.table, imports |-> log.imports]
    IN  [db |-> ConnExit(db, working, log.raised),
         raised |-> log.raised,
         returned |-> loop.stored_count]

-----------------------------------------------------------------------------
(* config.py: the classification dictionaries, in declaration order, each   *)
(* key with its triggers; and the classification functions of models.py,    *)
(* which is not part of the sources at hand and is modelled from the        *)
(* specification (section 4.2).                                             *)

ENABLE_AI == TRUE

MERCHANT_NAMES ==
    <<[name |-> "Amazon",
       triggers |-> <<<<"a", "m", "a", "z", "o", "n">>,
                      <<"a", "m", "a", "z", "o", "n", ".", "i", "n">>>>],
      [name |-> "Flipkart",
       triggers |-> <<<<"f", "l", "i", "p", "k", "a", "r", "t">>>>],
      [name |-> "Swiggy",
       triggers |-> <<<<"s", "w", "i", "g", "g", "y">>,
                      <<"i", "n", "s", "t", "a", "m", "a", "r", "t">>>>],
      [name |-> "Zomato",
       triggers |-> <<<<"z", "o", "m", "a", "t", "o">>>>],
      [name |-> "Zepto",
       triggers |-> <<<<"z", "e", "p", "t", "o">>>>],
      [name |-> "Uber",
       triggers |-> <<<<"u", "b", "e", "r">>>>],
      [name |-> "Ola",
       triggers |-> <<<<"o", "l", "a">>>>],
      [name |-> "Airbnb",
       triggers |-> <<<<"a", "i", "r", "b", "n", "b">>>>],
      [name |-> "Netflix",
       triggers |-> <<<<"n", "e", "t", "f", "l", "i", "x">>>>],
      [name |-> "Spotify",
       triggers |-> <<<<"s", "p", "o", "t", "i", "f", "y">>>>],
      [name |-> "Ikea",
       triggers |-> <<<<"i", "k", "e", "a">>>>],
      [name |-> "ICICI Bank",
       triggers |-> <<<<"i", "c", "i", "c", "i">>,
                      <<"i", "c", "i", "c", "i", " ", "b", "a", "n", "k">>>>],
      [name |-> "HDFC Bank",
       triggers |-> <<<<"h", "d", "f", "c">>,
                      <<"h", "d", "f", "c", " ", "b", "a", "n", "k">>>>],
      [name |-> "SBI Bank",
       triggers |-> <<<<"s", "b", "i">>,
                      <<"s", "t", "a", "t", "e", " ", "b", "a", "n", "k">>>>],
      [name |-> "Electricity Board",
       triggers |-> <<<<"e", "l", "e", "c", "t", "r", "i", "c", "i", "t", "y">>,
                      <<"p", "o", "w", "e", "r", " ", "b", "i", "l", "l">>>>],
      [name |-> "Google",
       triggers |-> <<<<"g", "o", "o", "g", "l", "e">>,
                      <<"g", "o", "o", "g", "l", "e", " ", "p", "l", "a", "y">>>>],
      [name |-> "Apple",
       triggers |-> <<<<"a", "p", "p", "l", "e">>,
                      <<"a", "p", "p", " ", "s", "t", "o", "r", "e">>>>],
      [name |-> "OPENAI",
       triggers |-> <<<<"o", "p", "e", "n", "a", "i">>,
                      <<"c", "h", "a", "t", "g", "p", "t">>,
                      <<"o", "p", "e", "n", " ", "a", "i">>,
                      <<"c", "h", "a", "t", " ", "g", "p", "t">>>>],
      [name |-> "Nyka",
       triggers |-> <<<<"n", "y", "k", "a">>>>],
      [name |-> "Souled Store",
       triggers |-> <<<<"s", "o", "u", "l", "e", "d", " ", "s", "t", "o", "r", "e">>>>],
      [name |-> "comet",
       triggers |-> <<<<"c", "o", "m", "e", "t">>>>],
      [name |-> "puma",
       triggers |-> <<<<"p", "u", "m", "a">>>>],
      [name |-> "dineout",
       triggers |-> <<<<"d", "i", "n", "e", "o", "u", "t">>>>],
      [name |-> "Cult.fit",
       triggers |-> <<<<"c", "u", "r", "e", " ", "f", "i", "t">>>>]>>

CATEGORIES ==
    <<[name |-> "Shopping",
       triggers |-> <<<<"a", "m", "a", "z", "o", "n">>,
                      <<"f", "l", "i", "p", "k", "a", "r", "t">>,
                      <<"m", "y", "n", "t", "r", "a">>,
                      <<"e", "b", "a", "y">>,
                      <<"n", "y", "k", "a">>,
                      <<"s", "h", "o", "p", "p", "e", "r", "s", " ", "s", "t", "o", "p">>,
                      <<"s", "o", "u", "l", "e", "d", " ", "s", "t", "o", "r", "e">>,
                      <<"i", "k", "e", "a">>,
                      <<"a", "p", "p", "l", "e">>,
                      <<"c", "o", "m", "e", "t">>,
                      <<"p", "u", "m", "a">>>>],
      [name |-> "Transport",
       triggers |-> <<<<"u", "b", "e", "r">>,
                      <<"o", "l", "a">>,
                      <<"m", "e", "t", "r", "o">>,
                      <<"b", "u", "s">>,
                      <<"c", "a", "b">>>>],
      [name |-> "Food and groceries",
       triggers |-> <<<<"s", "w", "i", "g", "g", "y">>,
                      <<"z", "o", "m", "a", "t", "o">>,
                      <<"r", "e", "s", "t", "a", "u", "r", "a", "n", "t">>,
                      <<"p", "i", "z", "z", "a">>,
                      <<"d", "o", "m", "i", "n", "o", "s">>,
                      <<"m", "c", "d", "o", "n", "a", "l", "d", "s">>,
                      <<"z", "e", "p", "t", "o">>,
                      <<"b", "i", "g", "b", "a", "s", "k", "e", "t">>,
                      <<"g", "r", "o", "c", "e", "r", "y">>,
                      <<"s", "u", "p", "e", "r", "m", "a", "r", "k", "e", "t">>,
                      <<"m", "i", "l", "k">>,
                      <<"v", "e", "g", "e", "t", "a", "b", "l", "e", "s">>,
                      <<"d", "i", "n", "e", "o", "u", "t">>>>],
      [name |-> "Entertainment",
       triggers |-> <<<<"n", "e", "t", "f", "l", "i", "x">>,
                      <<"s", "p", "o", "t", "i", "f", "y">>,
                      <<"h", "o", "t", "s", "t", "a", "r">>,
                      <<"c", "i", "n", "e", "m", "a">>,
                      <<"t", "h", "e", "a", "t", "e", "r">>>>],
      [name |-> "Utilities",
       triggers |-> <<<<"e", "l", "e", "c", "t", "r", "i", "c", "i", "t", "y">>,
                      <<"w", "a", "t", "e", "r", " ", "b", "i", "l", "l">>,
                      <<"g", "a", "s">>,
                      <<"i", "n", "t", "e", "r", "n", "e", "t">>,
                      <<"w", "i", "f", "i">>>>],
      [name |-> "Salary",
       triggers |-> <<<<"s", "a", "l", "a", "r", "y">>,
                      <<"p", "a", "y", "r", "o", "l", "l">>,
                      <<"c", "r", "e", "d", "i", "t", "e", "d">>>>],
      [name |-> "Bank Fees",
       triggers |-> <<<<"a", "t", "m", " ", "w", "i", "t", "h", "d", "r", "a", "w", "a", "l">>,
                      <<"b", "a", "n", "k", " ", "c", "h", "a", "r", "g", "e">>,
                      <<"o", "v", "e", "r", "d", "r", "a", "f", "t">>,
                      <<"f", "c", "y">>,
                      <<"m", "a", "r", "k", "u", "p">>>>],
      [name |-> "Healthcare",
       triggers |-> <<<<"p", "h", "a", "r", "m", "a", "c", "y">>,
                      <<"h", "o", "s", "p", "i", "t", "a", "l">>,
                      <<"d", "o", "c", "t", "o", "r">>,
                      <<"m", "e", "d", "i", "c", "i", "n", "e">>,
                      <<"c", "u", "l", "t", ".", "f", "i", "t">>>>],
      [name |-> "Education",
       triggers |-> <<<<"s", "c", "h", "o", "o", "l">>,
                      <<"c", "o", "l", "l", "e", "g", "e">>,
                      <<"t", "u", "i", "t", "i", "o", "n">>,
                      <<"c", "o", "u", "r", "s", "e">>,
                      <<"o", "p", "e", "n", "a", "i">>>>],
      [name |-> "Investment",
       triggers |-> <<<<"m", "u", "t", "u", "a", "l", " ", "f", "u", "n", "d">>,
                      <<"s", "t", "o", "c", "k", "s">>,
                      <<"c", "r", "y", "p", "t", "o">>,
                      <<"n", "i", "f", "t", "y">>,
                      <<"s", "e", "n", "s", "e", "x">>>>],
      [name |-> "travel",
       triggers |-> <<<<"a", "i", "r", "b", "n", "b">>,
                      <<"b", "o", "o", "k", "i", "n", "g", ".", "c", "o", "m">>>>]>>

\* str.lower() of a character
LowerChar(c) ==
    CASE c = "A" -> "a"
      [] c = "B" -> "b"
      [] c = "C" -> "c"
      [] c = "D" -> "d"
      [] c = "E" -> "e"
      [] c = "F" -> "f"
      [] c = "G" -> "g"
      [] c = "H" -> "h"
      [] c = "I" -> "i"
      [] c = "J" -> "j"
      [] c = "K" -> "k"
      [] c = "L" -> "l"
      [] c = "M" -> "m"
      [] c = "N" -> "n"
      [] c = "O" -> "o"
      [] c = "P" -> "p"
      [] c = "Q" -> "q"
      [] c = "R" -> "r"
      [] c = "S" -> "s"
      [] c = "T" -> "t"
      [] c = "U" -> "u"
      [] c = "V" -> "v"
      [] c = "W" -> "w"
      [] c = "X" -> "x"
      [] c = "Y" -> "y"
      [] c = "Z" -> "z"
      [] OTHER -> c

Lower(s) == [i \in 1..Len(s) |-> LowerChar(s[i])]

\* t in s, for strings
Contains(s, t) == \E i \in 1..(Len(s) - Len(t) + 1) : SubSeq(s, i, i + Len(t) - 1) = t

\* the entries of a dictionary one of whose triggers is a substring of text
Matching(dictionary, text) ==
    {i \in 1..Len(dictionary) :
        \E j \in 1..Len(dictionary[i].triggers) : Contains(text, dictionary[i].triggers[j])}

\* the greatest element of a set of numbers
Max(S) == CHOOSE x \in S : \A y \in S : x >= y

\* an extraction that lets the last matching merchant win
extract_name_last(description) ==
    LET ms == Matching(MERCHANT_NAMES, Lower(description))
    IN  IF ms = {} THEN "" ELSE MERCHANT_NAMES[Max(ms)].name

\* extract_merchant: the first merchant, in the order of the dictionary, one
\* of whose triggers is a substring of the lower-cased description; the
\* empty string when there is none
extract_name(description) ==
    LET ms == Matching(MERCHANT_NAMES, Lower(description))
    IN  IF ms = {} THEN "" ELSE MERCHANT_NAMES[Min(ms)].name

\* the categories whose trigger set holds the merchant name itself
Shortcut(merchant) ==
    {i \in 1..Len(CATEGORIES) :
        \E j \in 1..Len(CATEGORIES[i].triggers) : Str(CATEGORIES[i].triggers[j]) = merchant}

\* a categorisation that scans the description before it looks at the merchant
categorize_description_first(merchant, description) ==
    LET ms == Matching(CATEGORIES, description)
    IN  IF ms # {} THEN CATEGORIES[Min(ms)].name
        ELSE IF Shortcut(merchant) # {} THEN CATEGORIES[Min(Shortcut(merchant))].name
        ELSE "Uncategorized"

\* categorize: the category whose triggers hold the merchant name, else the
\* first category one of whose triggers is a substring of the raw
\* description, else the sentinel
categorize_transaction(merchant, description) ==
    LET ms == Matching(CATEGORIES, description)
    IN  IF Shortcut(merchant) # {} THEN CATEGORIES[Min(Shortcut(merchant))].name
        ELSE IF ms # {} THEN CATEGORIES[Min(ms)].name
        ELSE "Uncategorized"

\* what the external classifier does with one request: it answers with free
\* text, or it fails
AiReply(kind, name, category) == [kind |-> kind, name |-> name, category |-> category]

AiReplies ==
    {AiReply("answer", "Blinkit", "Groceries"), AiReply("timeout", "", ""),
     AiReply("service_error", "", ""), AiReply("malformed", "", "")}

\* an external path that hands an empty result to the caller when it fails
extract_name_ai_no_fallback(description, enable_ai, reply) ==
    IF enable_ai
    THEN (IF reply.kind = "answer" THEN reply.name ELSE "")
    ELSE extract_name(description)

\* the external path of extract_merchant: the classifier's answer when the
\* hook is enabled and the classifier answers, the rule-based result otherwise
extract_name_ai(description, enable_ai, reply) ==
    IF enable_ai /\ reply.kind = "answer" THEN reply.name ELSE extract_name(description)

\* the external path of categorize
categorize_transaction_with_ai(name, description, enable_ai, reply) ==
    IF enable_ai /\ reply.kind = "answer"
    THEN reply.category
    ELSE categorize_transaction(name, description)

(* The descriptions handed to the classification functions *)

MaxWords == 2

\* the words of the descriptions: swiggy, instamart, UBER, cola, milk, cab, dineout, test, amazon.in
Words ==
    {<<"s", "w", "i", "g", "g", "y">>,
     <<"i", "n", "s", "t", "a", "m", "a", "r", "t">>,
     <<"U", "B", "E", "R">>,
     <<"c", "o", "l", "a">>,
     <<"m", "i", "l", "k">>,
     <<"c", "a", "b">>,
     <<"d", "i", "n", "e", "o", "u", "t">>,
     <<"t", "e", "s", "t">>,
     <<"a", "m", "a", "z", "o", "n", ".", "i", "n">>}

\* "swiggy instamart order vegetables and milk"
Scenario3 == <<"s", "w", "i", "g", "g", "y", " ", "i", "n", "s", "t", "a", "m", "a", "r", "t", " ", "o", "r", "d", "e", "r", " ", "v", "e", "g", "e", "t", "a", "b", "l", "e", "s", " ", "a", "n", "d", " ", "m", "i", "l", "k">>

\* the words of a description, joined by single spaces
RECURSIVE Description(_)
Description(ws) ==
    IF ws = <<>> THEN <<>>
    ELSE IF Len(ws) = 1 THEN ws[1]
    ELSE ws[1] \o <<" ">> \o Description(Tail(ws))

\* the merchant arguments categorize is called with: the extracted name, None
\* (as the tests pass it), and a merchant key that is itself a trigger
Merchants(description) == {extract_name(description), NoneStr, "dineout"}

-----------------------------------------------------------------------------
(* models.py, cli.py, utils.py: the parse command *)

\* list(s)
Chars(s) == [i \in 1..Len(s) |-> SubSeq(s, i, i)]

\* the record builder: an item gets its merchant and its category from the
\* classification functions (specification, section 4.4)
BuildItem(e) ==
    LET name == extract_name(Chars(e.description))
    IN  ExpenseItem(e.date, e.time, name, e.description, e.amount,
                    categorize_transaction(name, Chars(e.description)))

\* the files given to the command: the path, its suffix, whether the bytes
\* decode as UTF-8 text, and what pdfplumber and csv read from them
File(path, suffix, binary, text, tables, csv) ==
    [path |-> path, suffix |-> suffix, binary |-> binary, text |-> text,
     tables |-> tables, csv |-> csv]

\* an Amazon Pay statement, an HDFC credit card bill, an HDFC and an SBI
\* export, and a spreadsheet
Files ==
    {File("amazon.pdf", ".pdf", TRUE, TextPdf(<<2>>, <<TRUE>>, <<LinePlain, LineCredit>>),
          TablePdf(<<0>>, <<>>), NoFile),
     File("hdfc_cred.pdf", ".pdf", TRUE, TextPdf(<<1>>, <<FALSE>>, <<LineNoDate>>),
          TablePdf(<<3>>, <<RowHeading, RowSwiggy, RowColumns>>), NoFile),
     File("hdfc.csv", ".csv", FALSE, NoPdf, NoPdf,
          CsvFile(<<"Date", "Description", "Debit", "Credit">>,
                  <<<<CellDateDmy, CellAtm, Cell500, CellEmpty>>,
                    <<CellDateDmy, CellAtm, CellEmpty, Cell250_50>>>>)),
     File("sbi.csv", ".csv", FALSE, NoPdf, NoPdf,
          CsvFile(<<"Txn Date", "Details", "Dr", "Cr">>,
                  <<<<CellDateIso, CellAtm, Cell500, CellEmpty>>>>)),
     File("statement.xlsx", ".xlsx", TRUE, NoPdf, NoPdf, NoFile)}

\* the values of --bank: the supported identifiers, the default, and an
\* identifier the command does not know
BankOptions == {"hdfc-cred", "hdfc-bank", "hdfcbank", "sbi", "amazon-pay", "auto", "icici"}

MaxRuns == 2

\* the values of --output
Outputs == {"unified.csv"}

\* open(file_path, 'r', encoding='utf-8') and the reader loop on an existing
\* file: bytes that are not UTF-8 text raise UnicodeDecodeError
ReadCsv(parser, file) ==
    IF file.binary
    THEN [raised |-> TRUE, expenses |-> <<>>]
    ELSE parse_file(parser, file.csv)

Returned(message) == [message |-> message, raised |-> FALSE, expenses |-> <<>>]

Ran(r) == [message |-> "", raised |-> r.raised, expenses |-> r.expenses]

\* the if/elif chain of parse that picks the parser
Dispatch(file, bank) ==
    IF bank = "hdfc-cred" /\ file.suffix = ".pdf"
    THEN Ran(hdfc_cred_bill(file.tables))
    ELSE IF bank \in {"hdfc-bank", "hdfcbank"} \/ bank = "auto"
    THEN IF bank = "auto"
         THEN IF file.suffix = ".pdf"
              THEN Returned("Auto-detected as HDFC Credit Card PDF, use --bank hdfc-cred")
              ELSE IF file.suffix \in {".xlsx", ".xls"}
              THEN Returned("Excel support not yet implemented.")
              ELSE Ran(ReadCsv("hdfc_csv", file))
         ELSE Ran(ReadCsv("hdfc_csv", file))
    ELSE IF bank = "sbi"
    THEN Ran(ReadCsv("sbi_csv", file))
    ELSE IF bank = "amazon-pay" /\ file.suffix = ".pdf"
    THEN Ran(amazon_pay_statement(file.text))
    ELSE Returned("Unsupported bank")

\* name_or_path if name_or_path.endswith('.csv') else f"{name_or_path}.csv"
OutputPath(name) ==
    IF Len(name) >= 4 /\ SubSeq(name, Len(name) - 3, Len(name)) = ".csv"
    THEN name
    ELSE name \o ".csv"

\* no file at an output path
NoOutput == [exists |-> FALSE, rows |-> <<>>]

\* one record of the output CSV
CsvRecord(item) ==
    [Date |-> DateIso(item.date),
     Time |-> IF item.time.kind = "none" THEN "" ELSE TimeIso(item.time),
     Name |-> item.name, Description |-> item.description,
     Amount |-> item.amount, Category |-> item.category]

\* write_expenses_convert: item.date.strftime raises on a missing date;
\* df.to_csv writes the file anew
write_expenses_convert(files, expense_items, name_or_path) ==
    IF \E k \in 1..Len(expense_items) : expense_items[k].date.kind = "none"
    THEN [raised |-> TRUE, files |-> files]
    ELSE [raised |-> FALSE,
          files |-> [files EXCEPT ![OutputPath(name_or_path)] =
                        [exists |-> TRUE,
                         rows |-> [k \in 1..Len(expense_items) |->
                                      CsvRecord(expense_items[k])]]]]

\* the parse command on the database db and the output files `files`, from
\* the point where the parser has answered d and the items have been built:
\* what the command leaves behind, what it echoed last, and whether it ended
\* in a traceback
parse(db, files, d, items, file, bank, output, use_db, import_date, fault) ==
    LET unchanged == [db |-> db, files |-> files, expenses |-> <<>>, stored |-> FALSE,
                      stored_count |-> 0]
    IN  IF d.message # "" THEN unchanged @@ [outcome |-> d.message]
        ELSE IF d.raised THEN unchanged @@ [outcome |-> "Traceback"]
        ELSE IF d.expenses = <<>> THEN unchanged @@ [outcome |-> "No transactions parsed."]
        ELSE LET s == IF use_db
                      THEN store_transactions(db, items, bank, file.path, import_date, fault)
                      ELSE [db |-> db, raised |-> FALSE, returned |-> 0]
                 w == write_expenses_convert(files, items, output)
             IN  IF s.raised
                 THEN [db |-> s.db, files |-> files, expenses |-> items, stored |-> use_db,
                       stored_count |-> s.returned, outcome |-> "Traceback"]
                 ELSE IF w.raised
                 THEN [db |-> s.db, files |-> files, expenses |-> items, stored |-> use_db,
                       stored_count |-> s.returned, outcome |-> "Traceback"]
                 ELSE [db |-> s.db, files |-> w.files, expenses |-> items, stored |-> use_db,
                       stored_count |-> s.returned, outcome |-> "Parsed"]

-----------------------------------------------------------------------------
(* gmail_sync.py: MultiAccountGmail.get_credentials_for_account *)

MaxAuths == 2

\* str.lower() of a string
LowerStr(s) == Str(Lower(Chars(s)))

\* the accounts asked for and the accounts picked in the browser
RequestedAccounts == {"Alice@example.com", "bob@example.com", "bob@work.com"}

BrowserAccounts == {"alice@example.com", "bob@example.com", "bob@work.com"}

\* get_token_file_for_account without a token_file entry in the
\* configuration: config/tokens/token_<local part>.json
TokenFile(email) ==
    LET cs == Chars(email)
        at == Positions(cs, "@")
        local == IF at = {} THEN cs ELSE SubSeq(cs, 1, Min(at) - 1)
    IN  "config/tokens/token_" \o Str(local) \o ".json"

TokenPaths == {TokenFile(a) : a \in RequestedAccounts}

\* no file at a token path
NoToken == [exists |-> FALSE, account |-> "", state |-> ""]

\* a token file: the account the credentials were issued for, and whether
\* the credentials are valid, expired with a refresh token, or expired
\* without one
Token(account, state) == [exists |-> TRUE, account |-> account, state |-> state]

\* a verification that returns the profile's address without comparing it
verify_gmail_account_unchecked(actual_email, expected_email, profile_ok) ==
    IF ~profile_ok THEN [raised |-> "Exception", email |-> ""]
    ELSE [raised |-> "", email |-> actual_email]

\* verify_gmail_account: the address of the authorised profile; ValueError
\* when it differs from the expected address, letter case aside; Exception
\* when the profile request fails with HttpError
verify_gmail_account(actual_email, expected_email, profile_ok) ==
    IF ~profile_ok THEN [raised |-> "Exception", email |-> ""]
    ELSE IF expected_email # "" /\ LowerStr(actual_email) # LowerStr(expected_email)
    THEN [raised |-> "ValueError", email |-> ""]
    ELSE [raised |-> "", email |-> actual_email]

\* get_credentials_for_account on the token files `files`: selected is the
\* account picked in the browser should the OAuth flow run, profile_ok and
\* refresh_ok say whether the profile request and the token refresh succeed
get_credentials_for_account(files, account_email, selected, profile_ok, refresh_ok) ==
    LET token_file == TokenFile(account_email)
        creds == files[token_file]
    IN  IF creds.exists /\ creds.state = "valid"
        THEN [files |-> files, raised |-> "", fresh |-> FALSE, wrote |-> FALSE,
              creds |-> creds]
        ELSE IF creds.exists /\ creds.state = "expired_refreshable"
        THEN IF refresh_ok
             THEN [files |-> [files EXCEPT ![token_file] = Token(creds.account, "valid")],
                   raised |-> "", fresh |-> FALSE, wrote |-> TRUE,
                   creds |-> Token(creds.account, "valid")]
             ELSE [files |-> files, raised |-> "RefreshError", fresh |-> FALSE,
                   wrote |-> FALSE, creds |-> NoToken]
        ELSE LET v == verify_gmail_account(selected, account_email, profile_ok)
             IN  IF v.raised = "ValueError"
                 THEN [files |-> [files EXCEPT ![token_file] = NoToken],
                       raised |-> "ValueError", fresh |-> TRUE, wrote |-> FALSE,
                       creds |-> NoToken]
                 ELSE IF v.raised # ""
                 THEN [files |-> files, raised |-> v.raised, fresh |-> TRUE,
                       wrote |-> FALSE, creds |-> NoToken]
                 ELSE [files |-> [files EXCEPT ![token_file] = Token(selected, "valid")],
                       raised |-> "", fresh |-> TRUE, wrote |-> TRUE,
                       creds |-> Token(selected, "valid")]

-----------------------------------------------------------------------------
(* database.py: query_transactions and get_spending_summary;                *)
(* utils.py: analyze_spending.  The table is a set of rows; SQLite compares *)
(* the date and time columns as text.                                       *)

\* the characters of the texts compared, in the order of their codes
CodeOrder == Chars("-0123456789:ABCDEFGHIJKLMNOPQRSTUVWXYZabcdefghijklmnopqrstuvwxyz")

Code(c) == CHOOSE i \in 1..Len(CodeOrder) : CodeOrder[i] = c

RECURSIVE TextLess(_, _)
\* a < b for two texts, character by character
TextLess(a, b) ==
    IF b = <<>> THEN FALSE
    ELSE IF a = <<>> THEN TRUE
    ELSE IF a[1] = b[1] THEN TextLess(Tail(a), Tail(b))
    ELSE Code(a[1]) < Code(b[1])

\* a >= b for two strings
TextGe(a, b) == ~TextLess(Chars(a), Chars(b))

\* a Python int, or None
PyNone == [kind |-> "none", n |-> 0]

PyInt(n) == [kind |-> "int", n |-> n]

\* if x: for an int or None
Truthy(x) == x.kind = "int" /\ x.n # 0

\* a filters dict: a key that is absent holds None
FiltersOf(bank_name, date_from, date_to, category, description_like, amount_min,
          amount_max) ==
    [bank_name |-> bank_name, date_from |-> date_from, date_to |-> date_to,
     category |-> category, description_like |-> description_like,
     amount_min |-> amount_min, amount_max |-> amount_max]

NoFilters == FiltersOf(NoneStr, NoneStr, NoneStr, NoneStr, NoneStr, PyNone, PyNone)

\* the conditions query_transactions appends for the keys of filters
Matches(row, filters) ==
    /\ filters.bank_name # NoneStr => row.bank_name = filters.bank_name
    /\ filters.date_from # NoneStr => TextGe(row.date, filters.date_from)
    /\ filters.date_to # NoneStr => TextGe(filters.date_to, row.date)
    /\ filters.category # NoneStr => row.category = filters.category
    /\ filters.description_like # NoneStr =>
           Contains(Lower(Chars(row.description)), Lower(Chars(filters.description_like)))
    /\ filters.amount_min.kind # "none" => row.amount >= filters.amount_min.n
    /\ filters.amount_max.kind # "none" => row.amount <= filters.amount_max.n

MatchingRows(table, filters) == {row \in table : Matches(row, filters)}

\* the clauses of the query text, in order
QueryClauses(limit, offset) ==
    <<"SELECT", "FROM", "WHERE", "ORDER BY">>
        \o (IF Truthy(limit) THEN <<"LIMIT">> ELSE <<>>)
        \o (IF Truthy(offset) THEN <<"OFFSET">> ELSE <<>>)

\* SQLite's grammar: OFFSET stands only after LIMIT
WellFormed(clauses) ==
    \A i \in 1..Len(clauses) :
        clauses[i] = "OFFSET" => (i > 1 /\ clauses[i - 1] = "LIMIT")

\* ORDER BY date DESC, time DESC: r comes strictly before q (NULL times last)
SortsBefore(r, q) ==
    \/ TextLess(Chars(q.date), Chars(r.date))
    \/ /\ r.date = q.date
       /\ r.time # SqlNull
       /\ q.time = SqlNull \/ TextLess(Chars(q.time), Chars(r.time))

\* the orders in which SQLite may return the rows: rows with the same date
\* and time stand in any order
Orderings(rows) ==
    {order \in [1..Cardinality(rows) -> rows] :
        /\ \A i, j \in 1..Cardinality(rows) : i # j => order[i] # order[j]
        /\ \A i, j \in 1..Cardinality(rows) : i < j => ~SortsBefore(order[j], order[i])}

\* query_transactions on the table, the matching rows coming in `order`:
\* OperationalError when the query text is malformed; else the rows after
\* the first `offset`, at most `limit` of them (a negative limit is no limit)
query_transactions(order, limit, offset) ==
    IF ~WellFormed(QueryClauses(limit, offset))
    THEN [raised |-> "OperationalError", rows |-> <<>>]
    ELSE LET skip == IF Truthy(offset) /\ offset.n > 0 THEN offset.n ELSE 0
             rest == SubSeq(order, skip + 1, Len(order))
             rows == IF Truthy(limit) /\ limit.n >= 0 /\ limit.n < Len(rest)
                     THEN SubSeq(rest, 1, limit.n)
                     ELSE rest
         IN  [raised |-> "", rows |-> rows]

\* SUM(amount) over a set of rows
RECURSIVE SumRows(_)
SumRows(rows) ==
    IF rows = {} THEN 0
    ELSE LET r == CHOOSE x \in rows : TRUE IN r.amount + SumRows(rows \ {r})

\* get_spending_summary: cutoff_date is the date 30 * months days before now.
\* params holds the cutoff first and the bank second, the query text names
\* the bank placeholder first and the date placeholder second.
get_spending_summary(table, bank_name, months, cutoff_date) ==
    LET with_date == months # 0
        with_bank == bank_name \notin {NoneStr, ""}
        params == (IF with_date THEN <<cutoff_date>> ELSE <<>>)
                      \o (IF with_bank THEN <<bank_name>> ELSE <<>>)
        bank_param == params[1]
        date_param == params[IF with_bank THEN 2 ELSE 1]
        selected == {r \in table :
                        /\ with_bank => r.bank_name = bank_param
                        /\ with_date => TextGe(r.date, date_param)}
        spending == {r \in selected : r.amount < 0}
        group(c) == {r \in spending : r.category = c}
    IN  [total_transactions |-> Cardinality(selected),
         total_amount |-> SumRows(selected),
         top_categories |-> {[category |-> c, count |-> Cardinality(group(c)),
                              total |-> SumRows(group(c))] :
                                 c \in {r.category : r \in spending}},
         counted |-> spending]

\* analyze_spending: the rows with Amount > 0 are kept, and summed by category
analyze_spending(expenses) ==
    LET df == {i \in 1..Len(expenses) : expenses[i].amount # NaN /\ expenses[i].amount > 0}
        group(c) == {i \in df : expenses[i].category = c}
        RECURSIVE Sum(_)
        Sum(I) == IF I = {} THEN 0
                  ELSE LET i == CHOOSE x \in I : TRUE IN expenses[i].amount + Sum(I \ {i})
    IN  [empty |-> df = {},
         category_spending |-> {[category |-> c, total |-> Sum(group(c))] :
                                    c \in {expenses[i].category : i \in df}},
         counted |-> df]

\* A refund on the day of TxSwiggy, without a time.
TxRefund == ExpenseItem(Date(2025, 10, 27), NoneTime, "Amazon", "AMAZON REFUND", -10000, "Shopping")

\* the items of the tables queried
QueryTxs == {TxSwiggy, TxIgst, TxRefund}

\* the filters, limits and offsets of the queries
QueryFilters ==
    {NoFilters,
     FiltersOf("sbi", NoneStr, NoneStr, NoneStr, NoneStr, PyNone, PyNone),
     FiltersOf(NoneStr, "2025-10-20", "2025-10-27", NoneStr, NoneStr, PyNone, PyNone),
     FiltersOf(NoneStr, NoneStr, NoneStr, "Shopping", "refund", PyNone, PyNone),
     FiltersOf(NoneStr, NoneStr, NoneStr, NoneStr, NoneStr, PyInt(0), PyInt(38400))}

MaxOffset == 1

Limits == {PyNone, PyInt(1), PyInt(50)}

\* nothing queried, summarised or analysed yet
NoAnalysis ==
    [queried |-> FALSE, filters |-> NoFilters, limit |-> PyNone, offset |-> PyInt(0),
     query |-> [raised |-> "", rows |-> <<>>],
     summarised |-> FALSE, bank_name |-> NoneStr, months |-> 0,
     summary |-> [total_transactions |-> 0, total_amount |-> 0, top_categories |-> {},
                  counted |-> {}],
     analysed |-> FALSE,
     spending |-> [empty |-> TRUE, category_spending |-> {}, counted |-> {}]]

-----------------------------------------------------------------------------
(* gmail_sync.py: GmailSync.sync_statements.  The processed-ids file is the *)
(* sequence of its lines; a download is recorded with the run that made it. *)

MaxSyncs == 2

MaxQueries == 2

\* the attachments of the messages of the mailbox, as get_message_attachments
\* lists them
Attachments(message_id) ==
    IF message_id = "m1"
    THEN <<[attachment_id |-> "a1", filename |-> "Statement.PDF"],
           [attachment_id |-> "a2", filename |-> "Annexure.pdf"]>>
    ELSE <<[attachment_id |-> "a3", filename |-> "notes.txt"],
           [attachment_id |-> "a4", filename |-> "bill.pdf"]>>

\* the queries of the configuration, each with the messages search_emails
\* returns for it and its attachment pattern
QueryConfigs ==
    {[messages |-> <<"m1">>, attachment |-> "*.pdf"],
     [messages |-> <<"m1", "m2">>, attachment |-> "*.PDF"],
     [messages |-> <<"m2">>, attachment |-> "*"]}

\* fnmatch.fnmatch(filename.lower(), pattern.lower()) for a pattern "*" or
\* "*<suffix>": the lower-cased name ends with the lower-cased suffix
matches_attachment_pattern(filename, pattern) ==
    LET name == Lower(Chars(filename))
        suffix == Tail(Lower(Chars(pattern)))
    IN  /\ Len(name) >= Len(suffix)
        /\ SubSeq(name, Len(name) - Len(suffix) + 1, Len(name)) = suffix

\* get_processed_message_ids: the set of the lines of the file
get_processed_message_ids(file) == {file[i] : i \in 1..Len(file)}

\* mark_message_processed: the id is appended as a line
mark_message_processed(file, message_id) == Append(file, message_id)

\* "for attachment in attachments" from attachment i on; download_attachment
\* returns '' for the attachments of `fails`
RECURSIVE SyncAttachments(_, _, _, _, _, _)
SyncAttachments(g, run, message_id, pattern, fails, i) ==
    LET attachments == Attachments(message_id)
    IN  IF i > Len(attachments) THEN g
        ELSE IF /\ matches_attachment_pattern(attachments[i].filename, pattern)
                /\ attachments[i].attachment_id \notin fails
        THEN SyncAttachments(
                 [g EXCEPT !.downloaded =
                               Append(@, [run |-> run, message_id |-> message_id,
                                          attachment_id |-> attachments[i].attachment_id]),
                           !.processed = mark_message_processed(@, message_id)],
                 run, message_id, pattern, fails, i + 1)
        ELSE SyncAttachments(g, run, message_id, pattern, fails, i + 1)

\* "for message in messages" from message j on: a message whose id was in the
\* file when the run began is passed over
RECURSIVE SyncMessages(_, _, _, _, _, _)
SyncMessages(g, run, processed_message_ids, query_config, fails, j) ==
    IF j > Len(query_config.messages) THEN g
    ELSE IF query_config.messages[j] \in processed_message_ids
    THEN SyncMessages(g, run, processed_message_ids, query_config, fails, j + 1)
    ELSE SyncMessages(SyncAttachments(g, run, query_config.messages[j],
                                      query_config.attachment, fails, 1),
                      run, processed_message_ids, query_config, fails, j + 1)

\* "for query_config in queries" from query k on
RECURSIVE SyncQueries(_, _, _, _, _, _)
SyncQueries(g, run, processed_message_ids, queries, fails, k) ==
    IF k > Len(queries) THEN g
    ELSE SyncQueries(SyncMessages(g, run, processed_message_ids, queries[k], fails, 1),
                     run, processed_message_ids, queries, fails, k + 1)

\* sync_statements: the ids of the file are read once, before the queries
sync_statements(g, queries, fails) ==
    LET processed_message_ids == get_processed_message_ids(g.processed)
        done == SyncQueries(g, g.runs + 1, processed_message_ids, queries, fails, 1)
    IN  [done EXCEPT !.runs = g.runs + 1, !.queries = queries,
                     !.before = get_processed_message_ids(g.processed)]

\* no run made yet: no processed-ids file, nothing downloaded
NoSync == [runs |-> 0, processed |-> <<>>, downloaded |-> <<>>, queries |-> <<>>,
           before |-> {}]

-----------------------------------------------------------------------------
(* The state machine *)

NoCall == [made |-> FALSE, txs |-> <<>>, bank_name |-> "", file_path |-> NoneStr,
           fault |-> 0, raised |-> FALSE, returned |-> 0, same_as_previous |-> FALSE,
           completed |-> 0, logged |-> 0,
           before |-> [transactions |-> {}, imports |-> <<>>]]

NoParse == [parser |-> "", doc |-> <<>>, raised |-> FALSE, expenses |-> <<>>]

NoClassify == [made |-> FALSE, description |-> <<>>, merchant |-> "", enable_ai |-> FALSE,
               reply |-> AiReply("timeout", "", ""), name |-> "", category |-> "", name_ai |-> "",
               category_ai |-> ""]

NoCommand == [runs |-> 0, path |-> "", suffix |-> "", bank |-> "", output |-> "",
              db |-> FALSE, fault |-> 0, outcome |-> "", expenses |-> <<>>,
              stored_count |-> 0, repeats |-> FALSE,
              previous |-> [path |-> "", bank |-> "", db |-> FALSE, outcome |-> ""],
              before |-> [transactions |-> {}, exported |-> <<>>]]

\* no get_credentials_for_account call made yet
NoAuth == [made |-> 0, account_email |-> "", selected |-> "", profile_ok |-> FALSE,
           raised |-> "", fresh |-> FALSE, wrote |-> FALSE, before |-> <<>>]

Init ==
    /\ transactions = {}
    /\ imports = <<>>
    /\ calls = 0
    /\ last = NoCall
    /\ parsed = NoParse
    /\ classified = NoClassify
    /\ exported = [p \in {OutputPath(o) : o \in Outputs} |-> NoOutput]
    /\ cmd = NoCommand
    /\ token_files = [p \in TokenPaths |-> NoToken]
    /\ auth = NoAuth
    /\ analysis = NoAnalysis
    /\ gmail = NoSync

\* One call of store_transactions.  `last` records the call for the
\* properties below: its arguments, its outcome, the database before it,
\* whether it repeats the previous completed call, and how many calls have
\* completed (and completed with a truthy file_path) so far.
StoreTransactions(txs, bank_name, file_path, fault) ==
    /\ calls < MaxCalls
    /\ \E r \in {store_transactions([transactions |-> transactions, imports |-> imports],
                                    txs, bank_name, file_path, calls + 1, fault)} :
           /\ transactions' = r.db.transactions
           /\ imports' = r.db.imports
           /\ last' = [made |-> TRUE, txs |-> txs, bank_name |-> bank_name,
                       file_path |-> file_path, fault |-> fault, raised |-> r.raised,
                       returned |-> r.returned,
                       same_as_previous |-> /\ last.made /\ ~last.raised /\ ~r.raised
                                            /\ last.txs = txs
                                            /\ last.bank_name = bank_name
                                            /\ last.file_path = file_path,
                       completed |-> last.completed + (IF r.raised THEN 0 ELSE 1),
                       logged |-> last.logged +
                                  (IF r.raised \/ file_path \in {NoneStr, ""} THEN 0 ELSE 1),
                       before |-> [transactions |-> transactions, imports |-> imports]]
    /\ calls' = calls + 1
    /\ UNCHANGED <<parsed, classified, exported, cmd, token_files, auth, analysis, gmail>>

NextStore ==
    \E txs \in SeqsUpTo(Txs, MaxTxs), bank_name \in Banks, file_path \in FilePaths :
        \E fault \in 0..(Len(txs) + 1) :
            StoreTransactions(txs, bank_name, file_path, fault)

SpecStore == Init /\ [][NextStore]_vars

\* One parser call on one document; a run parses one document.  `parsed`
\* records the call: the parser, the document, whether the call raised, and
\* the list it returned.
AmazonPayStatement(doc) ==
    /\ parsed.parser = ""
    /\ \E r \in {amazon_pay_statement(doc)} :
           parsed' = [parser |-> "amazon", doc |-> doc, raised |-> r.raised,
                      expenses |-> r.expenses]
    /\ UNCHANGED <<transactions, imports, calls, last, classified, exported, cmd,
                   token_files, auth, analysis, gmail>>

HdfcCredBill(doc) ==
    /\ parsed.parser = ""
    /\ \E r \in {hdfc_cred_bill(doc)} :
           parsed' = [parser |-> "hdfc_cred", doc |-> doc, raised |-> r.raised,
                      expenses |-> r.expenses]
    /\ UNCHANGED <<transactions, imports, calls, last, classified, exported, cmd,
                   token_files, auth, analysis, gmail>>

HdfcParseFile(doc) ==
    /\ parsed.parser = ""
    /\ \E r \in {parse_file("hdfc_csv", doc)} :
           parsed' = [parser |-> "hdfc_csv", doc |-> doc, raised |-> r.raised,
                      expenses |-> r.expenses]
    /\ UNCHANGED <<transactions, imports, calls, last, classified, exported, cmd,
                   token_files, auth, analysis, gmail>>

SbiParseFile(doc) ==
    /\ parsed.parser = ""
    /\ \E r \in {parse_file("sbi_csv", doc)} :
           parsed' = [parser |-> "sbi_csv", doc |-> doc, raised |-> r.raised,
                      expenses |-> r.expenses]
    /\ UNCHANGED <<transactions, imports, calls, last, classified, exported, cmd,
                   token_files, auth, analysis, gmail>>

\* no parser has been called yet
Idle == parsed.parser = ""

NextParse ==
    \/ Idle /\ \E q \in PageSizes(MaxLines) :
                  \E hs \in [1..Len(q) -> BOOLEAN], ls \in [1..SumSeq(q) -> Lines] :
                      AmazonPayStatement(TextPdf(q, hs, ls))
    \/ Idle /\ AmazonPayStatement(NoPdf)
    \/ Idle /\ \E q \in PageSizes(MaxRows) :
                  \E rows \in [1..SumSeq(q) -> TableRows] : HdfcCredBill(TablePdf(q, rows))
    \/ Idle /\ HdfcCredBill(NoPdf)
    \/ Idle /\ \E header \in CsvHeaders, n \in 0..MaxLines :
                  \E rows \in [1..n -> CsvDataRows] : HdfcParseFile(CsvFile(header, rows))
    \/ Idle /\ HdfcParseFile(NoFile)
    \/ Idle /\ \E header \in CsvHeaders, n \in 0..MaxLines :
                  \E rows \in [1..n -> CsvDataRows] : SbiParseFile(CsvFile(header, rows))
    \/ Idle /\ SbiParseFile(NoFile)

SpecParse == Init /\ [][NextParse]_vars

\* One call of each classification function on one description: the
\* rule-based functions, and the external path with the hook switched as
\* enable_ai says and the classifier reacting as reply says.
Classify(description, merchant, enable_ai, reply) ==
    /\ classified' = [made |-> TRUE, description |-> description, merchant |-> merchant,
                      enable_ai |-> enable_ai, reply |-> reply,
                      name |-> extract_name(description),
                      category |-> categorize_transaction(merchant, description),
                      name_ai |-> extract_name_ai(description, enable_ai, reply),
                      category_ai |-> categorize_transaction_with_ai(merchant, description,
                                                                     enable_ai, reply)]
    /\ UNCHANGED <<transactions, imports, calls, last, parsed, exported, cmd,
                   token_files, auth, analysis, gmail>>

NextClassify ==
    \/ ~classified.made /\ \E ws \in SeqsUpTo(Words, MaxWords) :
                          \E merchant \in Merchants(Description(ws)),
                             enable_ai \in {ENABLE_AI, FALSE}, reply \in AiReplies :
                              Classify(Description(ws), merchant, enable_ai, reply)
    \/ ~classified.made /\ \E merchant \in Merchants(Scenario3),
                           enable_ai \in {ENABLE_AI, FALSE}, reply \in AiReplies :
                            Classify(Scenario3, merchant, enable_ai, reply)

SpecClassify == Init /\ [][NextClassify]_vars

\* One run of the parse command.  `cmd` records the run: its arguments, how
\* it ended, the items it parsed, the database and the output files before
\* it, whether it repeats the previous run, both having run to the end, and
\* the file, bank, --db flag and outcome of the previous run.
ParseCommand(file, bank, output, use_db, fault) ==
    /\ \E d \in {Dispatch(file, bank)} :
       \E items \in {[k \in 1..Len(d.expenses) |-> BuildItem(d.expenses[k])]} :
       \E r \in {parse([transactions |-> transactions, imports |-> imports], exported,
                        d, items, file, bank, output, use_db, calls + 1, fault)} :
           /\ transactions' = r.db.transactions
           /\ imports' = r.db.imports
           /\ exported' = r.files
           /\ calls' = IF r.stored THEN calls + 1 ELSE calls
           /\ cmd' = [runs |-> cmd.runs + 1, path |-> file.path, suffix |-> file.suffix,
                      bank |-> bank, output |-> output, db |-> use_db, fault |-> fault,
                      outcome |-> r.outcome, expenses |-> r.expenses,
                      stored_count |-> r.stored_count,
                      repeats |-> /\ cmd.outcome = "Parsed" /\ r.outcome = "Parsed"
                                  /\ cmd.path = file.path /\ cmd.bank = bank
                                  /\ cmd.output = output /\ cmd.db = use_db,
                      previous |-> [path |-> cmd.path, bank |-> cmd.bank, db |-> cmd.db,
                                    outcome |-> cmd.outcome],
                      before |-> [transactions |-> transactions, exported |-> exported]]
    /\ UNCHANGED <<last, parsed, classified, token_files, auth, analysis, gmail>>

NextCommand ==
    /\ cmd.runs < MaxRuns
    /\ \E file \in Files, bank \in BankOptions, output \in Outputs, use_db \in BOOLEAN :
           \E fault \in (IF use_db THEN {0, 1} ELSE {0}) :
               ParseCommand(file, bank, output, use_db, fault)

SpecCommand == Init /\ [][NextCommand]_vars

\* One call of get_credentials_for_account.  `auth` records the call: its
\* arguments, what the browser and the Gmail API did, how it ended, whether
\* the OAuth flow ran, whether it wrote the token file, and the token files
\* before it.
GetCredentialsForAccount(account_email, selected, profile_ok, refresh_ok) ==
    /\ \E r \in {get_credentials_for_account(token_files, account_email, selected,
                                             profile_ok, refresh_ok)} :
           /\ token_files' = r.files
           /\ auth' = [made |-> auth.made + 1, account_email |-> account_email,
                       selected |-> selected, profile_ok |-> profile_ok,
                       raised |-> r.raised, fresh |-> r.fresh, wrote |-> r.wrote,
                       before |-> token_files]
    /\ UNCHANGED <<transactions, imports, calls, last, parsed, classified, exported, cmd,
                   analysis, gmail>>

\* Time passes: the credentials in a token file expire; the file holds a
\* refresh token or it does not.
TokenExpires(path, state) ==
    /\ token_files[path].exists
    /\ token_files[path].state = "valid"
    /\ token_files' = [token_files EXCEPT ![path].state = state]
    /\ UNCHANGED <<transactions, imports, calls, last, parsed, classified, exported, cmd,
                   auth, analysis, gmail>>

NextAuth ==
    \/ /\ auth.made < MaxAuths
       /\ \E account_email \in RequestedAccounts, selected \in BrowserAccounts,
             profile_ok \in BOOLEAN, refresh_ok \in BOOLEAN :
              GetCredentialsForAccount(account_email, selected, profile_ok, refresh_ok)
    \/ /\ auth.made < MaxAuths
       /\ \E path \in TokenPaths, state \in {"expired_refreshable", "expired"} :
              TokenExpires(path, state)

SpecAuth == Init /\ [][NextAuth]_vars

\* The import that fills the table the analyses read.
ImportForAnalysis(txs, bank_name) ==
    /\ analysis = NoAnalysis
    /\ calls = 0
    /\ StoreTransactions(txs, bank_name, NoneStr, 0)

\* One call of query_transactions on the table.
QueryTransactions(filters, limit, offset) ==
    /\ calls > 0
    /\ \E order \in Orderings(MatchingRows(transactions, filters)) :
       \E r \in {query_transactions(order, limit, offset)} :
           analysis' = [analysis EXCEPT !.queried = TRUE, !.filters = filters,
                                        !.limit = limit, !.offset = offset, !.query = r]
    /\ UNCHANGED <<transactions, imports, calls, last, parsed, classified, exported, cmd,
                   token_files, auth, gmail>>

\* One call of get_spending_summary on the table.
GetSpendingSummary(bank_name, months, cutoff_date) ==
    /\ calls > 0
    /\ \E r \in {get_spending_summary(transactions, bank_name, months, cutoff_date)} :
           analysis' = [analysis EXCEPT !.summarised = TRUE, !.bank_name = bank_name,
                                        !.months = months, !.summary = r]
    /\ UNCHANGED <<transactions, imports, calls, last, parsed, classified, exported, cmd,
                   token_files, auth, gmail>>

\* One call of analyze_spending on the items of the import.
AnalyzeSpending ==
    /\ calls > 0
    /\ ~analysis.analysed
    /\ \E r \in {analyze_spending(last.txs)} :
           analysis' = [analysis EXCEPT !.analysed = TRUE, !.spending = r]
    /\ UNCHANGED <<transactions, imports, calls, last, parsed, classified, exported, cmd,
                   token_files, auth, gmail>>

NextQuery ==
    \/ \E txs \in SeqsUpTo(QueryTxs, MaxTxs), bank_name \in Banks :
           ImportForAnalysis(txs, bank_name)
    \/ \E filters \in QueryFilters, limit \in Limits, offset \in 0..MaxOffset :
           QueryTransactions(filters, limit, PyInt(offset))
    \/ \E bank_name \in {NoneStr, "hdfc-bank"}, months \in {0, 3} :
           GetSpendingSummary(bank_name, months, "2025-10-20")
    \/ AnalyzeSpending

SpecQuery == Init /\ [][NextQuery]_vars

\* One run of sync_statements.  `gmail` keeps the processed-ids file and the
\* downloads of all runs, and records the queries of the last run and the
\* ids the file held before it.
SyncStatements(queries, fails) ==
    /\ gmail.runs < MaxSyncs
    /\ gmail' = sync_statements(gmail, queries, fails)
    /\ UNCHANGED <<transactions, imports, calls, last, parsed, classified, exported, cmd,
                   token_files, auth, analysis>>

NextSync ==
    \E queries \in SeqsUpTo(QueryConfigs, MaxQueries), fails \in {{}, {"a1"}, {"a4"}} :
        SyncStatements(queries, fails)

SpecSync == Init /\ [][NextSync]_vars

Next ==
    \/ NextStore \/ NextParse \/ NextClassify \/ NextCommand \/ NextAuth \/ NextQuery
    \/ NextSync

Spec == Init /\ [][Next]_vars

-----------------------------------------------------------------------------
(* Properties of store_transactions *)

Completed == last.made /\ ~last.raised

\* the items of the last call that the table can hold (a date is bound)
Storable(t) == t.date.kind # "none"

KeysOf(table) == {r.reference_id : r \in table}

ListKeys(P(_)) == {reference_id(last.bank_name, last.txs[i]) :
                      i \in {j \in 1..Len(last.txs) : P(last.txs[j])}}

AnyItem(t) == TRUE

-----------------------------------------------------------------------------

\* the last item of the last call's list that has the reference id k
IsLastWithKey(i, k) ==
    /\ reference_id(last.bank_name, last.txs[i]) = k
    /\ \A j \in (i + 1)..Len(last.txs) :
           Storable(last.txs[j]) => reference_id(last.bank_name, last.txs[j]) # k

\* C2: the natural key of every stored row is its bank identifier, date,
\* description and amount, in that order, joined by '_'; store_transactions
\* upserts on it: after a completed call no two rows share a key, the keys
\* stored are those stored before plus those of the list (a colliding key
\* adds no row), and the row of each key of the list holds the time, merchant
\* name, description, amount and category of the later item with that key.
C2_KeyedUpsert ==
    Completed =>
        /\ \A r \in transactions :
               r.reference_id = r.bank_name \o "_" \o r.date \o "_" \o r.description
                                    \o "_" \o StrFloat(r.amount)
        /\ \A r1, r2 \in transactions : r1.reference_id = r2.reference_id => r1 = r2
        /\ KeysOf(transactions) = KeysOf(last.before.transactions) \cup ListKeys(Storable)
        /\ Cardinality(transactions) =
               Cardinality(KeysOf(last.before.transactions) \cup ListKeys(Storable))
        /\ \A i \in 1..Len(last.txs) : \A r \in transactions :
               (Storable(last.txs[i]) /\ IsLastWithKey(i, r.reference_id)) =>
                   /\ r.time = (IF last.txs[i].time.kind = "none" THEN SqlNull
                                ELSE TimeIso(last.txs[i].time))
                   /\ r.name = last.txs[i].name
                   /\ r.description = last.txs[i].description
                   /\ r.amount = last.txs[i].amount
                   /\ r.category = (IF last.txs[i].category \in {NoneStr, ""}
                                    THEN "Uncategorized" ELSE last.txs[i].category)

\* a stored row has been replaced by an item of the same key with another
\* time, merchant name and category
C2_Witness ==
    /\ Completed
    /\ \E r0 \in last.before.transactions : \E r1 \in transactions :
           /\ r0.reference_id = r1.reference_id
           /\ r0.time # r1.time /\ r0.name # r1.name /\ r0.category # r1.category
           /\ Cardinality(transactions) = Cardinality(last.before.transactions)

-----------------------------------------------------------------------------

-----------------------------------------------------------------------------

\* C4 as stated: every completed call records exactly one import summary
\* (file path, bank, stored count, total amount): the imports table has one
\* row per completed call.
C4_OneSummaryPerCall ==
    /\ Len(imports) = last.completed
    /\ Completed =>
           imports = Append(last.before.imports,
                            [file_path |-> last.file_path, bank_name |-> last.bank_name,
                             transaction_count |-> last.returned,
                             total_amount |-> SumAmounts(last.txs, 1)])

\* C4 amended: every completed call that is given a file path records
\* exactly one import summary (file path, bank, stored count, total amount of
\* the list), and a completed call without a file path records none: the
\* imports table has one row per completed call that was given a file path.
C4_OneSummaryPerNamedCall ==
    /\ Len(imports) = last.logged
    /\ (Completed /\ last.file_path \notin {NoneStr, ""}) =>
           imports = Append(last.before.imports,
                            [file_path |-> last.file_path, bank_name |-> last.bank_name,
                             transaction_count |-> last.returned,
                             total_amount |-> SumAmounts(last.txs, 1)])
    /\ (Completed /\ last.file_path \in {NoneStr, ""}) => imports = last.before.imports

\* two completed calls with a file path, the second of a list with an item
\* that could not be stored
C4_Witness ==
    /\ Completed /\ last.logged = 2 /\ Len(imports) = 2
    /\ last.returned < Len(last.txs)
    /\ last.returned >= 1

-----------------------------------------------------------------------------
(* Properties of the format parsers *)

Parsed == parsed.parser # ""

Opened == Parsed /\ parsed.doc.opens

IsCsv == parsed.parser \in {"hdfc_csv", "sbi_csv"}

\* the places (page, row) of the rows the parser reads: the lines of the
\* pages with the transaction header, the rows under each table's first row,
\* the data rows of a file
Places ==
    IF parsed.parser = "amazon"
    THEN {<<pg, i>> \in (1..MaxPages) \X (1..MaxLines) :
             /\ pg <= Len(parsed.doc.pages)
             /\ parsed.doc.pages[pg].header
             /\ i <= Len(parsed.doc.pages[pg].lines)}
    ELSE IF parsed.parser = "hdfc_cred"
    THEN {<<pg, i>> \in (1..MaxPages) \X (2..MaxRows) :
             /\ pg <= Len(parsed.doc.pages)
             /\ i <= Len(parsed.doc.pages[pg])}
    ELSE {<<1, i>> : i \in 1..Len(parsed.doc.rows)}

\* the row at a place
RowAt(src) ==
    IF parsed.parser = "amazon" THEN parsed.doc.pages[src[1]].lines[src[2]]
    ELSE IF parsed.parser = "hdfc_cred" THEN parsed.doc.pages[src[1]][src[2]]
    ELSE parsed.doc.rows[src[2]]

\* what the parser's row rules make of the row at a place
RowResult(src) ==
    IF parsed.parser = "amazon" THEN AmazonLine(RowAt(src))
    ELSE IF parsed.parser = "hdfc_cred"
    THEN LET r == HdfcCredRow(RowAt(src))
         IN  [ok |-> r.ok, date |-> r.date, description |-> r.description, amount |-> r.amount]
    ELSE IF parsed.parser = "hdfc_csv" THEN HdfcCsvRow(parsed.doc.header, RowAt(src))
    ELSE SbiCsvRow(parsed.doc.header, RowAt(src))

Before(a, b) == a[1] < b[1] \/ (a[1] = b[1] /\ a[2] < b[2])

\* the debit and the credit cell of a data row
DebitCell(row) == RowGet(parsed.doc.header, row, "Debit", RowGet(parsed.doc.header, row, "Dr", <<>>))

CreditCell(row) == RowGet(parsed.doc.header, row, "Credit", RowGet(parsed.doc.header, row, "Cr", <<>>))

\* the amount numeral of a statement line, and whether the line ends in the
\* credit marker
LineNumeral(line) ==
    LET n == Len(line)
    IN  Abs(clean_amount(IF line[n] \in {CR, DR} THEN line[n - 1] ELSE line[n]).value)

CreditMarked(line) == line[Len(line)] = CR

\* what the source says the row at a place is: a debit, a credit, or neither
Polarity(src) ==
    LET row == RowAt(src)
    IN  IF parsed.parser = "amazon"
        THEN IF LineNumeral(row) = 0 THEN "neither"
             ELSE IF CreditMarked(row) THEN "credit" ELSE "debit"
        ELSE IF parsed.parser = "hdfc_cred"
        THEN IF RowResult(src).amount = 0 THEN "neither" ELSE "debit"
        ELSE LET d == PyFloat(DebitCell(row))
                 c == PyFloat(CreditCell(row))
             IN  IF d.ok /\ d.value > 0 /\ Strip(CreditCell(row)) = <<>> THEN "debit"
                 ELSE IF c.ok /\ c.value > 0 /\ Strip(DebitCell(row)) = <<>> THEN "credit"
                 ELSE "neither"

\* C5: every transaction a format parser returns has a positive amount when
\* its source row is a debit and a negative amount when its source row is a
\* credit, whichever of the four parsers returned it.
C5_UniformSignConvention ==
    Opened =>
        \A k \in 1..Len(parsed.expenses) :
            LET e == parsed.expenses[k]
            IN  /\ Polarity(e.src) = "debit" => e.amount > 0
                /\ Polarity(e.src) = "credit" => e.amount < 0

\* C6: in both delimited-text parsers a row with a valid date, a Debit value
\* d > 0 and an empty Credit value yields a transaction of amount -d; the
\* debit is never ignored.
C6_DebitOnlyRowYieldsMinusDebit ==
    (Opened /\ IsCsv) =>
        \A src \in Places :
            LET row == RowAt(src)
                d == PyFloat(DebitCell(row))
                dated == Strptime(row[1], "-", parsed.parser = "hdfc_csv").kind # "none"
            IN  (dated /\ d.ok /\ d.value > 0 /\ CreditCell(row) = <<>>) =>
                    \E k \in 1..Len(parsed.expenses) :
                        /\ parsed.expenses[k].src = src
                        /\ parsed.expenses[k].amount = -d.value

\* C7 as stated: in the text-line parser an accepted line with the credit
\* marker yields a strictly negative amount, and an accepted line with the
\* debit marker or no marker and a non-negative numeral yields a strictly
\* positive amount.
C7_MarkerDecidesStrictSign ==
    (Opened /\ parsed.parser = "amazon") =>
        \A k \in 1..Len(parsed.expenses) :
            LET e == parsed.expenses[k]
                line == RowAt(e.src)
            IN  /\ CreditMarked(line) => e.amount < 0
                /\ (~CreditMarked(line) /\ LineNumeral(line) >= 0) => e.amount > 0

\* C7 amended: an accepted line that ends in the credit marker yields minus
\* its numeral, never a positive amount and a strictly negative one unless
\* the numeral is zero; an accepted line that ends in the debit marker or has
\* no marker yields its numeral, never a negative amount and a strictly
\* positive one unless the numeral is zero.
C7_MarkerDecidesSign ==
    (Opened /\ parsed.parser = "amazon") =>
        \A k \in 1..Len(parsed.expenses) :
            LET e == parsed.expenses[k]
                line == RowAt(e.src)
            IN  /\ CreditMarked(line) => e.amount = -LineNumeral(line)
                /\ ~CreditMarked(line) => e.amount = LineNumeral(line)

\* a statement with a credit of 100.00 and a credit of 0.00 has been parsed
C7_Witness ==
    /\ Opened /\ parsed.parser = "amazon"
    /\ \E j, k \in 1..Len(parsed.expenses) :
           /\ RowAt(parsed.expenses[j].src) = LineCredit
           /\ parsed.expenses[j].amount = -10000
           /\ RowAt(parsed.expenses[k].src) = LineZeroCredit
           /\ parsed.expenses[k].amount = 0

\* C8: the tabular parser maps every multi-column row under the header row
\* whose date column and amount column parse to one transaction: date from
\* the date column, description from the description column, amount from the
\* amount column (the example row takes 31.59, its last cell; the rule names
\* the second-to-last).
C8_MultiColumnRowMapped ==
    (Opened /\ parsed.parser = "hdfc_cred") =>
        \A src \in Places :
            LET row == RowAt(src)
                n == Len(row)
            IN  (/\ n >= 3
                 /\ \A c \in 1..n : Len(row[c]) = 1
                 /\ Strptime(row[1][1], "/", TRUE).kind # "none"
                 /\ ParseFloat(row[n][1]).ok /\ ParseFloat(row[n - 1][1]).ok) =>
                    \E k \in 1..Len(parsed.expenses) :
                        LET e == parsed.expenses[k]
                        IN  /\ e.src = src
                            /\ e.date = Strptime(row[1][1], "/", TRUE)
                            /\ e.description = Str(row[2][1])
                            /\ e.amount \in {ParseFloat(row[n][1]).value,
                                             ParseFloat(row[n - 1][1]).value}

C10_UnopenableDocumentRaises ==
    (Parsed /\ ~parsed.doc.opens) => parsed.raised

-----------------------------------------------------------------------------
(* What the caller of a parser sees *)

\* the rows read that the parser's rules reject
Rejected == {src \in Places : ~RowResult(src).ok}

\* the transactions of a returned list as the caller sees them
Visible(expenses) ==
    [k \in 1..Len(expenses) |->
        [date |-> expenses[k].date, time |-> expenses[k].time,
         description |-> expenses[k].description, amount |-> expenses[k].amount,
         bank_name |-> expenses[k].bank_name]]

LineAccepted(line) == AmazonLine(line).ok

TableRowAccepted(row) == HdfcCredRow(row).ok

CsvRowAccepted(row) ==
    IF parsed.parser = "hdfc_csv" THEN HdfcCsvRow(parsed.doc.header, row).ok
    ELSE SbiCsvRow(parsed.doc.header, row).ok

\* the parsed document without the rows the parser rejects
WithoutRejected ==
    IF parsed.parser = "amazon"
    THEN [opens |-> TRUE,
          pages |-> [i \in 1..Len(parsed.doc.pages) |->
                        [header |-> parsed.doc.pages[i].header,
                         lines |-> IF parsed.doc.pages[i].header
                                   THEN SelectSeq(parsed.doc.pages[i].lines, LineAccepted)
                                   ELSE parsed.doc.pages[i].lines]]]
    ELSE IF parsed.parser = "hdfc_cred"
    THEN [opens |-> TRUE,
          pages |-> [i \in 1..Len(parsed.doc.pages) |->
                        IF parsed.doc.pages[i] = <<>> THEN <<>>
                        ELSE <<parsed.doc.pages[i][1]>> \o
                             SelectSeq(Tail(parsed.doc.pages[i]), TableRowAccepted)]]
    ELSE [opens |-> TRUE, header |-> parsed.doc.header,
          rows |-> SelectSeq(parsed.doc.rows, CsvRowAccepted)]

\* what the parser that was called returns for a document
ResultOf(doc) ==
    IF parsed.parser = "amazon" THEN amazon_pay_statement(doc)
    ELSE IF parsed.parser = "hdfc_cred" THEN hdfc_cred_bill(doc)
    ELSE parse_file(parsed.parser, doc)

\* C11: the rows that were present but could not be parsed are counted and
\* the caller can observe the count: what the caller gets for a document
\* with rejected rows differs from what it gets for the same document
\* without them; in particular a document whose rows are all rejected is
\* told apart from a document with no rows.
C11_SkippedRowsSurfaced ==
    (Opened /\ Rejected # {}) =>
        \E r \in {ResultOf(WithoutRejected)} :
            \/ r.raised # parsed.raised
            \/ Visible(r.expenses) # Visible(parsed.expenses)

\* C12: every transaction a format parser returns has a date and an amount
\* that is a number; a row whose date or amount cannot be resolved is never
\* made a transaction.
C12_DateAndAmountResolved ==
    Parsed =>
        \A k \in 1..Len(parsed.expenses) :
            /\ parsed.expenses[k].date.kind = "date"
            /\ parsed.expenses[k].amount # NaN

-----------------------------------------------------------------------------
(* The count store_transactions returns *)

\* the number of items of the last call's list that the table can hold
StorableCount == Cardinality({k \in 1..Len(last.txs) : Storable(last.txs[k])})

-----------------------------------------------------------------------------
(* Properties of the parse command *)

\* the values of --bank whose parser takes a file with the suffix: the PDF
\* parsers take a .pdf, the delimited-text parsers any text file
Layouts(suffix) ==
    IF suffix = ".pdf" THEN {"hdfc-cred", "amazon-pay"}
    ELSE IF suffix = ".csv" THEN {"hdfc-bank", "sbi"}
    ELSE {}

\* the reports with which the command declines to parse
Declined ==
    {"Auto-detected as HDFC Credit Card PDF, use --bank hdfc-cred", "Unsupported bank"}

\* C13: with bank 'auto' and a file whose suffix fits more than one supported
\* layout, the run declines: it reports unsupported/ambiguous, parses no
\* transaction, and leaves the stored rows and the output files as they were.
C13_AutoDeclinesAmbiguous ==
    (cmd.runs > 0 /\ cmd.bank = "auto" /\ Cardinality(Layouts(cmd.suffix)) > 1) =>
        /\ cmd.outcome \in Declined
        /\ cmd.expenses = <<>>
        /\ transactions = cmd.before.transactions
        /\ exported = cmd.before.exported

\* the number of records in the output file of the last run, now and before
\* the run
Records(files) == Len(files[OutputPath(cmd.output)].rows)

\* C14: when a run that stores repeats the previous run on the same file,
\* storage has as many rows as before and the output CSV has the records it
\* had before plus the records of this run.
C14_StorageKeepsExportGrows ==
    (cmd.repeats /\ cmd.db) =>
        /\ Cardinality(transactions) = Cardinality(cmd.before.transactions)
        /\ Records(exported) = Records(cmd.before.exported) + Len(cmd.expenses)

\* the storage half of C14 alone
RerunAddsNoRows ==
    (cmd.repeats /\ cmd.db) =>
        Cardinality(transactions) = Cardinality(cmd.before.transactions)

-----------------------------------------------------------------------------
(* Properties of the classification functions *)

\* one of the triggers of a dictionary entry is a substring of the text
Hits(entry, text) == \E j \in 1..Len(entry.triggers) : Contains(text, entry.triggers[j])

\* the entries of a dictionary that hit the text
HitSet(dictionary, text) == {i \in 1..Len(dictionary) : Hits(dictionary[i], text)}

\* C15: extract_merchant returns the first merchant of MERCHANT_NAMES, in
\* declaration order, one of whose triggers is a substring of the lower-cased
\* description, and the empty string when no merchant has such a trigger.
C15_FirstMerchantWins ==
    classified.made =>
        \A text \in {Lower(classified.description)} :
            \/ /\ classified.name = ""
               /\ \A i \in 1..Len(MERCHANT_NAMES) : ~Hits(MERCHANT_NAMES[i], text)
            \/ \E i \in 1..Len(MERCHANT_NAMES) :
                   /\ classified.name = MERCHANT_NAMES[i].name
                   /\ Hits(MERCHANT_NAMES[i], text)
                   /\ \A j \in 1..(i - 1) : ~Hits(MERCHANT_NAMES[j], text)

\* a description with triggers of more than one merchant has been classified
C15_Witness ==
    /\ classified.made
    /\ Cardinality(HitSet(MERCHANT_NAMES, Lower(classified.description))) >= 2
    /\ classified.name # ""

\* the categories whose triggers hold the merchant name
Holding(merchant) ==
    {i \in 1..Len(CATEGORIES) :
        \E j \in 1..Len(CATEGORIES[i].triggers) : Str(CATEGORIES[i].triggers[j]) = merchant}

\* the first of a set of categories, in declaration order
FirstOf(S) == CATEGORIES[CHOOSE i \in S : \A j \in S : i <= j].name

\* C16: categorize returns the category whose triggers hold the merchant
\* name; when there is none, the first category in declaration order one of
\* whose triggers is a substring of the description; when there is none
\* either, "Uncategorized".  The description "swiggy instamart order
\* vegetables and milk" gets the merchant "Swiggy", and with that merchant
\* the category "Food and groceries".
C16_ShortcutThenFirstCategory ==
    classified.made =>
        \A S \in {Holding(classified.merchant)}, H \in {HitSet(CATEGORIES, classified.description)} :
            /\ S # {} => classified.category = FirstOf(S)
            /\ (S = {} /\ H # {}) => classified.category = FirstOf(H)
            /\ (S = {} /\ H = {}) => classified.category = "Uncategorized"
            /\ classified.description = Scenario3 =>
                   /\ classified.name = "Swiggy"
                   /\ classified.merchant = classified.name =>
                          classified.category = "Food and groceries"

\* the merchant name is a trigger of one category while the description
\* holds a trigger of a category declared earlier
C16_Witness ==
    /\ classified.made
    /\ \E i \in Holding(classified.merchant), j \in HitSet(CATEGORIES, classified.description) :
           j < i
    /\ classified.category = FirstOf(Holding(classified.merchant))

\* the external classifier is switched off, or it failed
NoAnswer == ~classified.enable_ai \/ classified.reply.kind # "answer"

\* C17: when the external classifier is disabled, or enabled and failing, the
\* external path returns the rule-based merchant and category, which depend
\* on the description (and the merchant passed) alone; for a description that
\* matches no trigger these are the empty merchant and "Uncategorized".
C17_FallbackIsRuleBased ==
    (classified.made /\ NoAnswer) =>
        /\ classified.name_ai = extract_name(classified.description)
        /\ classified.category_ai =
               categorize_transaction(classified.merchant, classified.description)
        /\ ( /\ HitSet(MERCHANT_NAMES, Lower(classified.description)) = {}
             /\ HitSet(CATEGORIES, classified.description) = {}
             /\ classified.merchant \in {"", NoneStr} ) =>
               /\ classified.name_ai = ""
               /\ classified.category_ai = "Uncategorized"

\* the hook is enabled, the classifier timed out, and the description has a
\* merchant
C17_Witness ==
    /\ classified.made
    /\ classified.enable_ai
    /\ classified.reply.kind = "timeout"
    /\ classified.name_ai # ""

-----------------------------------------------------------------------------
(* Which lines the text-line PDF parser makes transactions of *)

\* DD/MM/YYYY names a day of the calendar
IsCalendarDate(s) ==
    ValidDate(ToNat(SubSeq(s, 7, 10)), ToNat(SubSeq(s, 4, 5)), ToNat(SubSeq(s, 1, 2)))

\* the whitespace-separated fields of a line after the date at position p of
\* token t
FieldsAfter(line, t, p) ==
    (IF p + 10 <= Len(line[t]) THEN <<SubSeq(line[t], p + 10, Len(line[t]))>> ELSE <<>>)
        \o SubSeq(line, t + 1, Len(line))

\* the amount field: the last field, or the one before a final CR or DR
AmountField(fields) ==
    IF fields[Len(fields)] \in {CR, DR} THEN fields[Len(fields) - 1] ELSE fields[Len(fields)]

\* C19: every transaction the text-line PDF parser returns comes from a line
\* of a page with the transaction header; the line holds a DD/MM/YYYY date
\* that is a day of the calendar; after that date it has at least three
\* fields; the first of them is all digits and at least 8 characters long;
\* and the amount field starts with a digit.
C19_EmittedLinesAreWellFormed ==
    (Opened /\ parsed.parser = "amazon") =>
        \A k \in 1..Len(parsed.expenses) :
            \A src \in {parsed.expenses[k].src} :
                /\ src[1] \in 1..Len(parsed.doc.pages)
                /\ parsed.doc.pages[src[1]].header
                /\ src[2] \in 1..Len(parsed.doc.pages[src[1]].lines)
                /\ \A line \in {parsed.doc.pages[src[1]].lines[src[2]]} :
                       \E t \in 1..Len(line) :
                           \E p \in 1..Len(line[t]) :
                               /\ DatePatternAt(line[t], p)
                               /\ IsCalendarDate(SubSeq(line[t], p, p + 9))
                               /\ \A fields \in {FieldsAfter(line, t, p)} :
                                      /\ Len(fields) >= 3
                                      /\ IsDigits(fields[1])
                                      /\ Len(fields[1]) >= 8
                                      /\ Len(AmountField(fields)) > 0
                                      /\ AmountField(fields)[1] \in Digit

\* a header page with a line whose serial number is too short and a
\* well-formed line with a prefix: only the second is returned
C19_Witness ==
    /\ Opened /\ parsed.parser = "amazon"
    /\ Len(parsed.doc.pages) = 1
    /\ parsed.doc.pages[1].header
    /\ parsed.doc.pages[1].lines = <<LineBadSerial, LinePrefixed>>
    /\ Len(parsed.expenses) = 1
    /\ parsed.expenses[1].src = <<1, 2>>

\* tokens without a date pattern: 7%, REF, 12/2025
PrefixTokens ==
    {<<"7", "%">>, <<"R", "E", "F">>, <<"1", "2", "/", "2", "0", "2", "5">>}

\* C20: for every line the text-line PDF parser made a transaction of, and
\* every prefix token without a date pattern, the line with the prefix put
\* before it is accepted too, with the same date, description and amount as
\* the transaction returned.
C20_PrefixTolerated ==
    (Opened /\ parsed.parser = "amazon") =>
        \A k \in 1..Len(parsed.expenses) :
            \A e \in {parsed.expenses[k]}, P \in PrefixTokens :
                \A r \in {AmazonLine(<<P>> \o parsed.doc.pages[e.src[1]].lines[e.src[2]])} :
                    /\ r.ok
                    /\ r.date = e.date
                    /\ r.description = e.description
                    /\ r.amount = e.amount

\* one page holds a line and the same line behind the prefix 7%, and both
\* have become transactions with the same date, description and amount
C20_Witness ==
    /\ Opened /\ parsed.parser = "amazon"
    /\ Len(parsed.doc.pages) = 1
    /\ parsed.doc.pages[1].lines = <<LineSwiggy, LinePrefixed>>
    /\ Len(parsed.expenses) = 2
    /\ parsed.expenses[1].date = parsed.expenses[2].date
    /\ parsed.expenses[1].description = parsed.expenses[2].description
    /\ parsed.expenses[1].amount = parsed.expenses[2].amount

-----------------------------------------------------------------------------
(* The description the text-line PDF parser gives a transaction *)

\* s.split(' ') of a string of characters without double spaces
RECURSIVE SplitWords(_, _)
SplitWords(s, word) ==
    IF s = <<>> THEN (IF word = <<>> THEN <<>> ELSE <<word>>)
    ELSE IF s[1] = " " THEN (IF word = <<>> THEN <<>> ELSE <<word>>) \o SplitWords(Tail(s), <<>>)
    ELSE SplitWords(Tail(s), Append(word, s[1]))

\* the fields after the first date of a line that became a transaction
Fields(line) ==
    LET t == CHOOSE k \in 1..Len(line) :
                 /\ DatePositions(line[k]) # {}
                 /\ \A j \in 1..(k - 1) : DatePositions(line[j]) = {}
        p == CHOOSE i \in DatePositions(line[t]) : \A j \in DatePositions(line[t]) : i <= j
    IN  FieldsAfter(line, t, p)

\* the line a returned transaction was made of
LineOf(e) == parsed.doc.pages[e.src[1]].lines[e.src[2]]

\* the fields that follow the amount field's predecessor: the field before
\* the amount, when it is a number of reward points
HasMarker(fields) == fields[Len(fields)] \in {CR, DR}

RewardFields(fields) ==
    LET i == Len(fields) - (IF HasMarker(fields) THEN 2 ELSE 1)
    IN  IF i >= 3 /\ IsDigits(fields[i]) THEN {fields[i]} ELSE {}

\* C21: the description of a transaction returned by the text-line PDF
\* parser holds neither the amount field of its line, nor the reward-points
\* field, nor the CR/DR marker, whether the line ends in a marker or not.
C21_DescriptionIsFreeText ==
    (Opened /\ parsed.parser = "amazon") =>
        \A k \in 1..Len(parsed.expenses) :
            \A fields \in {Fields(LineOf(parsed.expenses[k]))},
               words \in {SplitWords(Chars(parsed.expenses[k].description), <<>>)} :
                \A i \in 1..Len(words) :
                    /\ words[i] # AmountField(fields)
                    /\ words[i] \notin RewardFields(fields)
                    /\ words[i] \notin {CR, DR}

\* C22: a line with exactly three fields after the date, no marker among
\* them, that became a transaction has its second field as description, and
\* no transaction the text-line PDF parser returns has an empty description.
C22_DescriptionNeverEmpty ==
    (Opened /\ parsed.parser = "amazon") =>
        \A k \in 1..Len(parsed.expenses) :
            \A fields \in {Fields(LineOf(parsed.expenses[k]))} :
                /\ parsed.expenses[k].description # ""
                /\ (Len(fields) = 3 /\ ~HasMarker(fields)) =>
                       parsed.expenses[k].description = Str(fields[2])

\* every three-field line of a header page becomes a transaction
ThreeFieldLineEmitted ==
    (Opened /\ parsed.parser = "amazon") =>
        \A src \in Places :
            RowAt(src) = LineThree => \E k \in 1..Len(parsed.expenses) : parsed.expenses[k].src = src

-----------------------------------------------------------------------------
(* The token file after a fresh OAuth authorisation *)

\* the last call ran the OAuth flow and the account picked in the browser is
\* not the requested one, letter case aside
Mismatch ==
    /\ auth.made > 0
    /\ auth.fresh
    /\ LowerStr(auth.selected) # LowerStr(auth.account_email)

\* C23: a get_credentials_for_account call that ran the OAuth flow wrote the
\* account's token file only if the authorised address equals the requested
\* one, letter case aside; on a mismatch the call raised and wrote nothing,
\* and once the profile was read no file is left at the account's token path.
C23_TokenOnlyForRequestedAccount ==
    /\ (auth.made > 0 /\ auth.fresh /\ auth.wrote)
           => LowerStr(auth.selected) = LowerStr(auth.account_email)
    /\ Mismatch =>
           /\ auth.raised # ""
           /\ ~auth.wrote
           /\ auth.profile_ok =>
                  /\ auth.raised = "ValueError"
                  /\ ~token_files[TokenFile(auth.account_email)].exists

\* a mismatch detected while the account's token path held an expired token,
\* saved by an earlier authorisation that matched in all but letter case
C23_Witness ==
    /\ Mismatch
    /\ auth.profile_ok
    /\ auth.before[TokenFile(auth.account_email)].exists
    /\ auth.before[TokenFile(auth.account_email)].account # auth.account_email
    /\ LowerStr(auth.before[TokenFile(auth.account_email)].account)
           = LowerStr(auth.account_email)
    /\ ~token_files[TokenFile(auth.account_email)].exists
-----------------------------------------------------------------------------
(* The natural key as a function of its components *)

\* the keys of all items of KeyTxs under all accepted bank identifiers
AllKeys == {reference_id(b, t) : b \in AcceptedBanks, t \in KeyTxs}

\* the row an INSERT of item i of the last call's list replaced: a row stored
\* before the call, or written by an earlier item of the list, with the key
\* of item i
ReplacedBy(i) ==
    {r \in last.before.transactions :
        r.reference_id = reference_id(last.bank_name, last.txs[i])}
    \cup {InsertParams(last.bank_name, last.txs[j], 0) : j \in
             {k \in 1..(i - 1) : /\ Storable(last.txs[k])
                                 /\ reference_id(last.bank_name, last.txs[k])
                                        = reference_id(last.bank_name, last.txs[i])}}

\* C24: the natural key is injective on bank identifier, date, description
\* and amount: items differing in one of them, under the accepted bank
\* identifiers, have different keys; and every row a store_transactions call
\* replaced agrees with the item that replaced it in those four fields.
C24_KeyInjective ==
    /\ Cardinality(AllKeys) = Cardinality(AcceptedBanks) * Cardinality(KeyTxs)
    /\ last.made =>
           \A i \in 1..Len(last.txs) : \A r \in ReplacedBy(i) :
               /\ r.bank_name = last.bank_name
               /\ r.date = InsertParams(last.bank_name, last.txs[i], 0).date
               /\ r.description = last.txs[i].description
               /\ r.amount = last.txs[i].amount

\* a completed call replaced a stored row by an item of the same key that
\* differs from the row in time, merchant name and category
C24_Witness ==
    /\ Completed
    /\ \E i \in 1..Len(last.txs) : \E r \in ReplacedBy(i) :
           /\ r \in last.before.transactions
           /\ r.name # last.txs[i].name
           /\ r.time # InsertParams(last.bank_name, last.txs[i], 0).time
           /\ r \notin transactions

-----------------------------------------------------------------------------
(* The count of an import and the rows it leaves *)

\* the rows the last call wrote that are stored: they carry its import_date
WrittenAndStored == {r \in transactions : r.import_date = calls}

\* C25: after a completed store_transactions call the count it returned, and
\* the transaction_count of the import summary it logged, equal the number of
\* rows the call wrote that are stored.
C25_CountIsRowsWritten ==
    Completed =>
        /\ last.returned = Cardinality(WrittenAndStored)
        /\ last.file_path \notin {NoneStr, ""} =>
               imports[Len(imports)].transaction_count = Cardinality(WrittenAndStored)

-----------------------------------------------------------------------------
(* Re-import under another bank identifier *)

\* the identifiers whose runs read a delimited-text file with the HDFC
\* account-statement parser
HdfcCsvIdentifiers == {"hdfc-bank", "hdfcbank", "auto"}

\* the last run and the run before it stored the same delimited-text file
\* through the same parser, named by different identifiers, and both ran to
\* the end
ReimportedUnderOtherIdentifier ==
    /\ cmd.runs > 1
    /\ cmd.outcome = "Parsed" /\ cmd.previous.outcome = "Parsed"
    /\ cmd.db /\ cmd.previous.db
    /\ cmd.path = cmd.previous.path
    /\ cmd.suffix = ".csv"
    /\ cmd.bank \in HdfcCsvIdentifiers /\ cmd.previous.bank \in HdfcCsvIdentifiers
    /\ cmd.bank # cmd.previous.bank

\* C26: when 'parse --db' stores a file again and the two runs name the same
\* parser through different accepted identifiers, the table has as many rows
\* after the second run as after the first.
C26_ReimportOtherIdentifierAddsNoRows ==
    ReimportedUnderOtherIdentifier =>
        Cardinality(transactions) = Cardinality(cmd.before.transactions)

-----------------------------------------------------------------------------
(* The two spending analyses, and paging through a query *)

\* item i of the import is among the rows the top-categories breakdown of the
\* last summary counted
CountedInBreakdown(i) ==
    \E r \in analysis.summary.counted :
        r.reference_id = reference_id(last.bank_name, last.txs[i])

\* C27: analyze_spending on the items of an import and the top-categories
\* breakdown of get_spending_summary on the rows of the same import (no bank
\* filter, no cutoff) count the same transactions as spending.
C27_AnalysesAgreeOnPolarity ==
    (analysis.analysed /\ analysis.summarised
        /\ analysis.bank_name = NoneStr /\ analysis.months = 0) =>
        \A i \in 1..Len(last.txs) :
            (i \in analysis.spending.counted) <=> CountedInBreakdown(i)

\* the two analyses count no item in common
AnalysesCountDisjoint ==
    (analysis.analysed /\ analysis.summarised) =>
        \A i \in 1..Len(last.txs) :
            ~(i \in analysis.spending.counted /\ CountedInBreakdown(i))

\* the matching rows after the first `offset`, in one of the orders SQLite
\* may return them, are what the last query returned
ReturnedAllButOffset ==
    \E order \in Orderings(MatchingRows(transactions, analysis.filters)) :
        analysis.query.rows = SubSeq(order, analysis.offset.n + 1, Len(order))

\* C28: a query_transactions call with a positive offset and no limit builds
\* a well-formed query, does not raise, and returns the matching rows except
\* the first `offset` in date-descending, time-descending order.
C28_OffsetWithoutLimit ==
    (analysis.queried /\ analysis.offset.n > 0 /\ ~Truthy(analysis.limit)) =>
        /\ WellFormed(QueryClauses(analysis.limit, analysis.offset))
        /\ analysis.query.raised = ""
        /\ ReturnedAllButOffset

\* a query with a limit the rows do not reach, or with no offset and no
\* limit, returns the matching rows except the first `offset`
QueryWithLimitReturnsRest ==
    (analysis.queried
        /\ \/ Truthy(analysis.limit) /\ analysis.limit.n = 50
           \/ ~Truthy(analysis.limit) /\ analysis.offset.n = 0) =>
        /\ analysis.query.raised = ""
        /\ ReturnedAllButOffset

-----------------------------------------------------------------------------
(* Which rows of a table the tabular PDF parser makes transactions of *)

\* the places (page, row) of all rows of all tables, the first rows included
TablePlaces ==
    {<<pg, i>> \in (1..MaxPages) \X (1..MaxRows) :
        /\ pg <= Len(parsed.doc.pages)
        /\ i <= Len(parsed.doc.pages[pg])}

\* a transaction row: one cell of at least 20 characters holding a stamp
\* 'DD/MM/YYYY| HH:MM' that is a calendar date and an amount 'C <amount> l'
TransactionRow(row) == HdfcCredRow(row).ok

\* the transactions returned for the row at a place
MadeOf(src) == {k \in 1..Len(parsed.expenses) : parsed.expenses[k].src = src}

\* C29: the tabular PDF parser returns exactly one transaction for every
\* transaction row of every page, the first row of a page's table included.
C29_NoTransactionRowDropped ==
    (Opened /\ parsed.parser = "hdfc_cred") =>
        \A src \in TablePlaces :
            TransactionRow(RowAt(src)) => Cardinality(MadeOf(src)) = 1

\* the same for the rows under the first row of each table
RowsUnderFirstKept ==
    (Opened /\ parsed.parser = "hdfc_cred") =>
        \A src \in TablePlaces :
            (src[2] > 1 /\ TransactionRow(RowAt(src))) => Cardinality(MadeOf(src)) = 1

\* the same for the first row of the table of a page after the first
ContinuationFirstRowKept ==
    (Opened /\ parsed.parser = "hdfc_cred") =>
        \A src \in TablePlaces :
            (src[1] > 1 /\ src[2] = 1 /\ TransactionRow(RowAt(src)))
                => Cardinality(MadeOf(src)) = 1

-----------------------------------------------------------------------------
(* What sync_statements downloads and records *)

\* C30: over all runs each attachment of a message is downloaded at most
\* once, no message is downloaded from by two queries of one run or by a run
\* after the one that marked it processed, and each message id stands at
\* most once in the processed-ids file.
C30_DownloadedAndRecordedOnce ==
    /\ \A i, j \in 1..Len(gmail.downloaded) :
           (i < j /\ gmail.downloaded[i].message_id = gmail.downloaded[j].message_id) =>
               /\ gmail.downloaded[i].attachment_id # gmail.downloaded[j].attachment_id
               /\ gmail.downloaded[i].run = gmail.downloaded[j].run
    /\ \A i, j \in 1..Len(gmail.processed) :
           i < j => gmail.processed[i] # gmail.processed[j]

\* a run downloads nothing from a message whose id the file held before it
LaterRunsSkipProcessed ==
    \A i \in 1..Len(gmail.downloaded) :
        gmail.downloaded[i].run = gmail.runs =>
            gmail.downloaded[i].message_id \notin gmail.before

\* each message id stands at most once in the processed-ids file
RecordedOnce ==
    \A i, j \in 1..Len(gmail.processed) : i < j => gmail.processed[i] # gmail.processed[j]

\* no attachment is downloaded twice
DownloadedOnce ==
    \A i, j \in 1..Len(gmail.downloaded) :
        i < j => ~(/\ gmail.downloaded[i].message_id = gmail.downloaded[j].message_id
                   /\ gmail.downloaded[i].attachment_id = gmail.downloaded[j].attachment_id)

=============================================================================
